---- MODULE Spec2Model ----
(***************************************************************************)
(* Model of manifesto (Diniboy1123/manifesto).                             *)
(*                                                                         *)
(* Part 1: the coalescing request cache of internal/utils/client.go.       *)
(*   The model follows one URL key of the cache map, the one backing file  *)
(*   hashURL(url) names, the request goroutines that call DoRequest and    *)
(*   then read and close the body, and the cleanup goroutine.  A file is   *)
(*   an inode holding the body in two chunks, so that a truncated or half  *)
(*   written file is distinguishable from a complete one; a body is        *)
(*   identified by the number of the fetch that downloaded it.             *)
(* Part 2: the representation id published in the MPD and parsed back by   *)
(*   the init and segment handlers.                                        *)
(* Part 3: the init segments built by segment/... and the repackaging of   *)
(*   media fragments (track id, data offset, tfdt, sdtp).                  *)
(* Part 4: PlayReady key extraction (utils.ExtractKeyInfo and              *)
(*   utils.ExtractPRKeyIdFromPssh).                                        *)
(* Part 5: the MPD built by transformers.SmoothToDashManifest and its      *)
(*   serialisation by MPD.Encode.                                          *)
(* Part 6: the stream and quality lookups of the init and segment          *)
(*   handlers and the status they answer with.                             *)
(* Part 7: functions of the request path, each called on bounded inputs:   *)
(*   the codec private data of AVC and EC-3 init segments, the rebasing    *)
(*   of TTML timestamps, the resolution of published representation ids    *)
(*   and the SegmentTimeline of the MPD; also the decryption of the        *)
(*   fragments of a segment and the DRM decision of the init and segment   *)
(*   handlers, which use the variables of parts 3 and 4.                   *)
(* Part 8: graceful shutdown of the server and the request log worker.     *)
(* Part 9: the configuration reload started by the file watcher.           *)
(***************************************************************************)
EXTENDS Integers, Sequences, FiniteSets, TLC

\* ---------------------------------------------------------------- bounds
NumCallers  == 2    \* request goroutines that may run concurrently
MaxRequests == 3    \* DoRequest calls made in one behaviour
MaxTime     == 2    \* clock ticks in one behaviour
LiveRequests == 3   \* DoRequest calls in one behaviour of the fair specification
LiveTicks   == 1    \* clock ticks in one behaviour of the fair specification
TTL         == 1    \* cfg.CacheDuration, in clock ticks (validated > 0)
MaxNameLen  == 3    \* length of a stream name
MaxIndex    == 11   \* largest quality level index

Callers == 1..NumCallers

VARIABLES
    now,        \* time.Now()
    cache,      \* cache (sync.Map) at the key url: an entry id, 0 = no entry
    entries,    \* heap of *cacheEntry values, indexed by entry id
    fsPath,     \* directory entry filepath.Join(saveDir, hashURL(url)): inode id, 0 = no file
    inodes,     \* file contents by inode id: <<chunk1, chunk2>>, 0 = not written
    pc,         \* position of each request goroutine
    loc,        \* locals of DoRequest / fetchAndCacheNewResponse / onClose
    res,        \* what DoRequest returned to the handler and what the handler read
    fetchSeq,   \* number of fetchAndCacheNewResponse calls that reached cache.Store
    left,       \* what is left of the behaviour: DoRequest calls to start, clock ticks
    rep,        \* rep-id round trip: Sprintf in SmoothToDashManifest, split in the handlers
    seg,        \* an init segment being generated or a media fragment being repackaged
    drm,        \* a PlayReady key extraction
    mpd,        \* a manifest conversion and the serialisation of the MPD
    req,        \* an init or segment request looking up its stream and quality level
    fn,         \* a call of a function of the segment, transformers or handlers packages
    srv,        \* the HTTP server, its requests, the log channel and the log worker
    cfg         \* the active configuration, the config file and the file watcher

cacheVars == <<now, cache, entries, fsPath, inodes, pc, loc, res, fetchSeq, left>>
\* the variables of parts 2 to 6
earlyVars == <<rep, seg, drm, mpd, req>>
\* the variables of parts 7 to 9
lateVars == <<fn, srv, cfg>>
\* the variables of parts 2 to 9: each part leaves the others alone
pureVars == <<rep, seg, drm, mpd, req, lateVars>>
vars == <<now, cache, entries, fsPath, inodes, pc, loc, res, fetchSeq, left, pureVars>>

\* ------------------------------------------------------------ cache state
NoErr == <<>>
NoPath == ""
Path == "saveDir/sha1(url)"
ErrReadingCacheFile == <<"error reading cache file">>

\* the error value of the fetch numbered fid (0: os.MkdirAll failed before any fetch)
Err(fid) == <<"error", fid>>

\* heap cells and inodes that nothing references are reclaimed and reused
HeapSize == 2 * NumCallers + 1
FreeEntry ==
    [filePath |-> NoPath, err |-> NoErr, timestamp |-> 0, ready |-> "free",
     refCount |-> 0, once |-> FALSE, creator |-> 0, signals |-> 0]
FreeInode == <<-1, -1>>

\* cacheEntry; creator is the number of the fetch that allocated the entry and
\* signals counts the sends and closes performed on ready
NewEntry(fid) ==
    [filePath |-> NoPath, err |-> NoErr, timestamp |-> now, ready |-> "open",
     refCount |-> 1, once |-> FALSE, creator |-> fid, signals |-> 0]

LocInit ==
    [entry |-> 0, expired |-> FALSE, cold |-> FALSE, tmp |-> 0, fid |-> 0,
     sent |-> FALSE, perr |-> NoErr, fd |-> 0, blocked |-> FALSE, centry |-> 0]

ResInit == [kind |-> "none", err |-> NoErr, fd |-> 0, got |-> <<>>, win |-> <<>>]

RepIdle == [pc |-> "off", name |-> <<>>, type |-> <<>>, index |-> 0, id |-> <<>>,
            status |-> 0, outName |-> <<>>, outIndex |-> 0]

\* parts 3 to 6 at rest
SegIdle == [pc |-> "off"]
DrmIdle == [pc |-> "off"]
MpdIdle == [pc |-> "off"]
ReqIdle == [pc |-> "off"]
FnIdle == [pc |-> "off"]
SrvIdle == [pc |-> "off"]
CfgIdle == [pc |-> "off"]
\* parts 2 to 6 at rest
EarlyIdle ==
    rep = RepIdle /\ seg = SegIdle /\ drm = DrmIdle /\ mpd = MpdIdle /\ req = ReqIdle
\* parts 7 to 9 at rest
LateIdle == fn = FnIdle /\ srv = SrvIdle /\ cfg = CfgIdle

CacheInitWith(requests, ticks) ==
    /\ now = 0
    /\ cache = 0
    /\ entries = [i \in 1..HeapSize |-> FreeEntry]
    /\ fsPath = 0
    /\ inodes = [i \in 1..HeapSize |-> FreeInode]
    /\ pc = [c \in Callers |-> "idle"]
    /\ loc = [c \in Callers |-> LocInit]
    /\ res = [c \in Callers |-> ResInit]
    /\ fetchSeq = 0
    /\ left = [requests |-> requests, ticks |-> ticks]

CacheInit == CacheInitWith(MaxRequests, MaxTime)

\* the Go garbage collector: an entry is kept while the map or a goroutine refers to it
Collect(ents, cacheV, locV) ==
    [i \in DOMAIN ents |->
        IF i = cacheV \/ \E c \in Callers : i \in {locV[c].entry, locV[c].centry}
           THEN ents[i] ELSE FreeEntry]

\* the file system: an inode is kept while it is linked or a descriptor is open on it
CollectInodes(inos, pathV, locV, resV) ==
    [i \in DOMAIN inos |->
        IF i = pathV \/ \E c \in Callers : i \in {locV[c].fd, resV[c].fd}
           THEN inos[i] ELSE FreeInode]

NewEntryId == CHOOSE i \in DOMAIN entries :
                 /\ entries[i] = FreeEntry
                 /\ \A j \in 1..(i - 1) : entries[j] # FreeEntry
NewInodeId == CHOOSE i \in DOMAIN inodes :
                 /\ inodes[i] = FreeInode
                 /\ \A j \in 1..(i - 1) : inodes[j] # FreeInode

\* os.Remove(p): unlink the directory entry; open handles keep their inode
Unlink(p) == IF p # NoPath THEN 0 ELSE fsPath

\* time.Since(entry.timestamp) >= cacheDuration
Expired(e) == now - entries[e].timestamp >= TTL

\* a handler starts a DoRequest for the url
Begin(c) ==
    /\ pc[c] = "idle"
    /\ left.requests > 0
    /\ left' = [left EXCEPT !.requests = @ - 1]
    /\ pc' = [pc EXCEPT ![c] = "load"]
    /\ UNCHANGED <<now, cache, entries, fsPath, inodes, loc, res, fetchSeq, pureVars>>

\* DoRequest: cache.Load(url)
Load(c) ==
    /\ pc[c] = "load"
    /\ IF cache = 0
          THEN /\ pc' = [pc EXCEPT ![c] = "store"]
               /\ loc' = [loc EXCEPT ![c].cold = TRUE]
          ELSE /\ pc' = [pc EXCEPT ![c] = "check"]
               /\ loc' = [loc EXCEPT ![c].entry = cache]
    /\ UNCHANGED <<now, cache, entries, fsPath, inodes, res, fetchSeq, left, pureVars>>

\* DoRequest: if time.Since(entry.timestamp) >= cacheDuration
CheckExpiry(c) ==
    /\ pc[c] = "check"
    /\ loc' = [loc EXCEPT ![c].expired = Expired(loc[c].entry)]
    /\ pc' = [pc EXCEPT ![c] = "inc"]
    /\ UNCHANGED <<now, cache, entries, fsPath, inodes, res, fetchSeq, left, pureVars>>

\* DoRequest: entry.refCount++ is a plain read ...
IncRead(c) ==
    /\ pc[c] = "inc"
    /\ loc' = [loc EXCEPT ![c].tmp = entries[loc[c].entry].refCount]
    /\ pc' = [pc EXCEPT ![c] = "incw"]
    /\ UNCHANGED <<now, cache, entries, fsPath, inodes, res, fetchSeq, left, pureVars>>

\* ... followed by a plain write; blocked records that the fetch was still in flight
IncWrite(c) ==
    /\ pc[c] = "incw"
    /\ entries' = [entries EXCEPT ![loc[c].entry].refCount = loc[c].tmp + 1]
    /\ loc' = [loc EXCEPT ![c].blocked = (entries[loc[c].entry].ready = "open"),
                          ![c].tmp = 0]
    /\ pc' = [pc EXCEPT ![c] = "wait"]
    /\ UNCHANGED <<now, cache, fsPath, inodes, res, fetchSeq, left, pureVars>>

\* DoRequest: <-entry.ready on a closed channel
Receive(c) ==
    /\ pc[c] = "wait"
    /\ entries[loc[c].entry].ready = "closed"
    /\ pc' = [pc EXCEPT ![c] = "err"]
    /\ UNCHANGED <<now, cache, entries, fsPath, inodes, loc, res, fetchSeq, left, pureVars>>

\* DoRequest: if entry.err != nil { return nil, entry.err }
CheckErr(c) ==
    /\ pc[c] = "err"
    /\ LET e == entries[loc[c].entry] IN
       IF e.err # NoErr
          THEN /\ res' = [res EXCEPT ![c].kind = "err", ![c].err = e.err]
               /\ pc' = [pc EXCEPT ![c] = "done"]
          ELSE /\ res' = res
               /\ pc' = [pc EXCEPT ![c] = IF loc[c].expired THEN "remove" ELSE "open"]
    /\ UNCHANGED <<now, cache, entries, fsPath, inodes, loc, fetchSeq, left, pureVars>>

\* DoRequest: os.Remove(entry.filePath) before the refresh
RemoveOld(c) ==
    /\ pc[c] = "remove"
    /\ fsPath' = Unlink(entries[loc[c].entry].filePath)
    /\ inodes' = CollectInodes(inodes, fsPath', loc, res)
    /\ pc' = [pc EXCEPT ![c] = "store"]
    /\ UNCHANGED <<now, cache, entries, loc, res, fetchSeq, left, pureVars>>

\* readResponseFromFile(p, url): os.Open and the response built on it; the
\* window of a served call is the fetch and the timestamp of its entry
OpenResult(p, e) ==
    IF p = NoPath \/ fsPath = 0
       THEN [ResInit EXCEPT !.kind = "resp500"]
       ELSE [ResInit EXCEPT !.kind = "body", !.fd = fsPath,
                             !.win = <<e.creator, e.timestamp>>]

\* DoRequest: return readResponseFromFile(entry.filePath, url), nil
OpenCached(c) ==
    /\ pc[c] = "open"
    /\ res' = [res EXCEPT ![c] = OpenResult(entries[loc[c].entry].filePath,
                                            entries[loc[c].entry])]
    /\ pc' = [pc EXCEPT ![c] = "done"]
    /\ UNCHANGED <<now, cache, entries, fsPath, inodes, loc, fetchSeq, left, pureVars>>

\* fetchAndCacheNewResponse: os.MkdirAll fails
MkdirFail(c) ==
    /\ pc[c] = "store"
    /\ res' = [res EXCEPT ![c].kind = "err", ![c].err = Err(0)]
    /\ pc' = [pc EXCEPT ![c] = "done"]
    /\ UNCHANGED <<now, cache, entries, fsPath, inodes, loc, fetchSeq, left, pureVars>>

\* fetchAndCacheNewResponse: allocate the entry when none was passed, cache.Store
Store(c) ==
    /\ pc[c] = "store"
    /\ fetchSeq' = fetchSeq + 1
    /\ LET e == IF loc[c].cold THEN NewEntryId ELSE loc[c].entry IN
       /\ cache' = e
       /\ loc' = [loc EXCEPT ![c].entry = e, ![c].fid = fetchSeq + 1]
       /\ entries' = Collect(IF loc[c].cold
                                THEN [entries EXCEPT ![e] = NewEntry(fetchSeq + 1)]
                                ELSE entries,
                             cache', loc')
    /\ pc' = [pc EXCEPT ![c] = "http"]
    /\ UNCHANGED <<now, fsPath, inodes, res, left, pureVars>>

\* fetchAndCacheNewResponse: http.NewRequest fails, nothing is sent
NewRequestFail(c) ==
    /\ pc[c] = "http"
    /\ loc' = [loc EXCEPT ![c].perr = Err(loc[c].fid)]
    /\ pc' = [pc EXCEPT ![c] = "seterr"]
    /\ UNCHANGED <<now, cache, entries, fsPath, inodes, res, fetchSeq, left, pureVars>>

\* fetchAndCacheNewResponse: the request is sent; Do(req) fails or answers
\* with a status other than 200
HttpFail(c) ==
    /\ pc[c] = "http"
    /\ loc' = [loc EXCEPT ![c].perr = Err(loc[c].fid), ![c].sent = TRUE]
    /\ pc' = [pc EXCEPT ![c] = "seterr"]
    /\ UNCHANGED <<now, cache, entries, fsPath, inodes, res, fetchSeq, left, pureVars>>

\* fetchAndCacheNewResponse: the request is sent and Do(req) answers 200
HttpOK(c) ==
    /\ pc[c] = "http"
    /\ loc' = [loc EXCEPT ![c].sent = TRUE]
    /\ pc' = [pc EXCEPT ![c] = "create"]
    /\ UNCHANGED <<now, cache, entries, fsPath, inodes, res, fetchSeq, left, pureVars>>

\* fetchAndCacheNewResponse: os.Create(filePath) creates the file or truncates it
Create(c) ==
    /\ pc[c] = "create"
    /\ LET i == IF fsPath = 0 THEN NewInodeId ELSE fsPath IN
       /\ inodes' = [inodes EXCEPT ![i] = <<0, 0>>]
       /\ fsPath' = i
       /\ loc' = [loc EXCEPT ![c].fd = i]
    /\ pc' = [pc EXCEPT ![c] = "copy1"]
    /\ UNCHANGED <<now, cache, entries, res, fetchSeq, left, pureVars>>

\* fetchAndCacheNewResponse: os.Create fails
CreateFail(c) ==
    /\ pc[c] = "create"
    /\ loc' = [loc EXCEPT ![c].perr = Err(loc[c].fid)]
    /\ pc' = [pc EXCEPT ![c] = "seterr"]
    /\ UNCHANGED <<now, cache, entries, fsPath, inodes, res, fetchSeq, left, pureVars>>

\* fetchAndCacheNewResponse: io.Copy writes the body through its own descriptor
Copy(c) ==
    /\ pc[c] \in {"copy1", "copy2"}
    /\ LET k == IF pc[c] = "copy1" THEN 1 ELSE 2 IN
       inodes' = [inodes EXCEPT ![loc[c].fd][k] = loc[c].fid]
    /\ pc' = [pc EXCEPT ![c] = IF pc[c] = "copy1" THEN "copy2" ELSE "ret"]
    /\ UNCHANGED <<now, cache, entries, fsPath, loc, res, fetchSeq, left, pureVars>>

\* fetchAndCacheNewResponse: io.Copy fails part way
CopyFail(c) ==
    /\ pc[c] \in {"copy1", "copy2"}
    /\ loc' = [loc EXCEPT ![c].perr = Err(loc[c].fid)]
    /\ pc' = [pc EXCEPT ![c] = "seterr"]
    /\ UNCHANGED <<now, cache, entries, fsPath, inodes, res, fetchSeq, left, pureVars>>

\* a once.Do whose function forgets to close the channel
OnceNoClose(e) == [e EXCEPT !.once = TRUE]

\* entry.once.Do(func() { close(entry.ready) })
OnceClose(e) ==
    IF e.once THEN e
              ELSE [e EXCEPT !.ready = "closed", !.once = TRUE, !.signals = @ + 1]

\* fetchAndCacheNewResponse: timestamp and filePath are set, the file is opened
\* for the caller, and the deferred calls close the written file and ready
FetchReturn(c) ==
    /\ pc[c] = "ret"
    /\ entries' = [entries EXCEPT ![loc[c].entry] =
                      OnceClose([@ EXCEPT !.timestamp = now, !.filePath = Path])]
    /\ res' = [res EXCEPT ![c] = OpenResult(Path, entries'[loc[c].entry])]
    /\ loc' = [loc EXCEPT ![c].fd = 0]
    /\ inodes' = CollectInodes(inodes, fsPath, loc', res')
    /\ pc' = [pc EXCEPT ![c] = "done"]
    /\ UNCHANGED <<now, cache, fsPath, fetchSeq, left, pureVars>>

\* setEntryError: entry.err = err
SetErr(e, err) == [e EXCEPT !.err = err]

\* case entry.ready <- struct{}{}
Send(e) == [e EXCEPT !.signals = @ + 1]

\* setEntryError: entry.err = err, then the select sends to a parked receiver
SetErrSend(c, w) ==
    /\ pc[c] = "seterr"
    /\ entries[loc[c].entry].ready = "open"
    /\ w # c /\ pc[w] = "wait" /\ loc[w].entry = loc[c].entry
    /\ entries' = [entries EXCEPT ![loc[c].entry] = Send(SetErr(@, loc[c].perr))]
    /\ pc' = [pc EXCEPT ![c] = "cleanup", ![w] = "err"]
    /\ UNCHANGED <<now, cache, fsPath, inodes, loc, res, fetchSeq, left, pureVars>>

\* setEntryError: entry.err = err, then the select takes default and closes ready
SetErrClose(c) ==
    /\ pc[c] = "seterr"
    /\ entries[loc[c].entry].ready = "open"
    /\ entries' = [entries EXCEPT ![loc[c].entry] = OnceClose(SetErr(@, loc[c].perr))]
    /\ pc' = [pc EXCEPT ![c] = "cleanup"]
    /\ UNCHANGED <<now, cache, fsPath, inodes, loc, res, fetchSeq, left, pureVars>>

\* setEntryError: entry.err = err, then the send on the closed channel panics;
\* the deferred calls run and net/http recovers the panic of the handler
SetErrPanic(c) ==
    /\ pc[c] = "seterr"
    /\ entries[loc[c].entry].ready = "closed"
    /\ entries' = [entries EXCEPT ![loc[c].entry] = Send(SetErr(@, loc[c].perr))]
    /\ res' = [res EXCEPT ![c].kind = "panic"]
    /\ loc' = [loc EXCEPT ![c].fd = 0]
    /\ inodes' = CollectInodes(inodes, fsPath, loc', res')
    /\ pc' = [pc EXCEPT ![c] = "done"]
    /\ UNCHANGED <<now, cache, fsPath, fetchSeq, left, pureVars>>

\* the deferred calls of fetchAndCacheNewResponse on an error return
DeferredClose(e) == OnceClose(e)

\* setEntryError: cache.Delete(url), os.Remove(entry.filePath); the caller
\* returns the error and the deferred calls close the written file and ready
Cleanup(c) ==
    /\ pc[c] = "cleanup"
    /\ cache' = 0
    /\ fsPath' = Unlink(entries[loc[c].entry].filePath)
    /\ res' = [res EXCEPT ![c].kind = "err", ![c].err = loc[c].perr]
    /\ loc' = [loc EXCEPT ![c].fd = 0]
    /\ entries' = Collect([entries EXCEPT ![loc[c].entry] = DeferredClose(@)], cache', loc')
    /\ inodes' = CollectInodes(inodes, fsPath', loc', res')
    /\ pc' = [pc EXCEPT ![c] = "done"]
    /\ UNCHANGED <<now, fetchSeq, left, pureVars>>

\* the handler got an error, a panic or the untracked 500 response
ReturnFailed(c) ==
    /\ pc[c] = "done"
    /\ res[c].kind \in {"err", "panic", "resp500"}
    /\ res' = [res EXCEPT ![c] = ResInit]
    /\ loc' = [loc EXCEPT ![c] = LocInit]
    /\ entries' = Collect(entries, cache, loc')
    /\ pc' = [pc EXCEPT ![c] = "idle"]
    /\ UNCHANGED <<now, cache, fsPath, inodes, fetchSeq, left, pureVars>>

\* the handler reads the body: io.ReadAll(resp.Body)
ReadBody(c) ==
    /\ pc[c] = "done"
    /\ res[c].kind = "body"
    /\ res' = [res EXCEPT ![c].got = inodes[res[c].fd]]
    /\ pc' = [pc EXCEPT ![c] = "close"]
    /\ UNCHANGED <<now, cache, entries, fsPath, inodes, loc, fetchSeq, left, pureVars>>

\* trackedBody.Close: the file is closed, then onClose does cache.Load(url)
\* and the read of entry.refCount--
CloseLoad(c) ==
    /\ pc[c] = "close"
    /\ IF cache = 0
          THEN /\ pc' = [pc EXCEPT ![c] = "idle"]
               /\ loc' = [loc EXCEPT ![c] = LocInit]
               /\ res' = [res EXCEPT ![c] = ResInit]
          ELSE /\ pc' = [pc EXCEPT ![c] = "closew"]
               /\ loc' = [loc EXCEPT ![c].centry = cache,
                                     ![c].tmp = entries[cache].refCount]
               /\ res' = [res EXCEPT ![c].fd = 0]
    /\ entries' = Collect(entries, cache, loc')
    /\ inodes' = CollectInodes(inodes, fsPath, loc', res')
    /\ UNCHANGED <<now, cache, fsPath, fetchSeq, left, pureVars>>

\* onClose: the write of entry.refCount--
CloseWrite(c) ==
    /\ pc[c] = "closew"
    /\ pc' = [pc EXCEPT ![c] = "idle"]
    /\ loc' = [loc EXCEPT ![c] = LocInit]
    /\ res' = [res EXCEPT ![c] = ResInit]
    /\ entries' = Collect([entries EXCEPT ![loc[c].centry].refCount = loc[c].tmp - 1],
                          cache, loc')
    /\ UNCHANGED <<now, cache, fsPath, inodes, fetchSeq, left, pureVars>>

\* StartCleanupLoop: one ticker round over the map
Sweep ==
    /\ now > 0 /\ now % TTL = 0
    /\ cache # 0
    /\ Expired(cache) /\ entries[cache].refCount <= 0
    /\ cache' = 0
    /\ fsPath' = Unlink(entries[cache].filePath)
    /\ entries' = Collect(entries, cache', loc)
    /\ inodes' = CollectInodes(inodes, fsPath', loc, res)
    /\ UNCHANGED <<now, pc, loc, res, fetchSeq, left, pureVars>>

\* time passes
Tick ==
    /\ left.ticks > 0
    /\ left' = [left EXCEPT !.ticks = @ - 1]
    /\ now' = now + 1
    /\ UNCHANGED <<cache, entries, fsPath, inodes, pc, loc, res, fetchSeq, pureVars>>

\* the steps of one request goroutine once its request has started
CallerStep(c) ==
    \/ Load(c) \/ CheckExpiry(c) \/ IncRead(c) \/ IncWrite(c) \/ Receive(c)
    \/ CheckErr(c) \/ RemoveOld(c) \/ OpenCached(c) \/ MkdirFail(c) \/ Store(c)
    \/ NewRequestFail(c) \/ HttpFail(c) \/ HttpOK(c) \/ Create(c) \/ CreateFail(c)
    \/ Copy(c) \/ CopyFail(c) \/ FetchReturn(c)
    \/ (\E w \in Callers : SetErrSend(c, w)) \/ SetErrClose(c) \/ SetErrPanic(c)
    \/ Cleanup(c) \/ ReturnFailed(c) \/ ReadBody(c) \/ CloseLoad(c) \/ CloseWrite(c)

CacheNext ==
    \/ \E c \in Callers : Begin(c)
    \/ \E c \in Callers : CallerStep(c)
    \/ Sweep
    \/ Tick

Init ==
    CacheInit /\ rep = RepIdle /\ seg = SegIdle /\ drm = DrmIdle /\ mpd = MpdIdle /\ req = ReqIdle /\ LateIdle

Next == CacheNext

Spec == Init /\ [][Next]_vars

\* every started request goroutine keeps running (the Go scheduler is fair)
FairInit ==
    /\ CacheInitWith(LiveRequests, LiveTicks)
    /\ rep = RepIdle /\ seg = SegIdle /\ drm = DrmIdle /\ mpd = MpdIdle /\ req = ReqIdle /\ LateIdle

FairSpec ==
    FairInit /\ [][Next]_vars /\ \A c \in Callers : WF_vars(CallerStep(c))

\* ------------------------------------------------------------ cache claims
\* c is inside fetchAndCacheNewResponse, after cache.Store and before its return
InFetch(c) == pc[c] \in {"http", "create", "copy1", "copy2", "ret", "seterr", "cleanup"}

\* c has sent its upstream request and its fetch has not returned yet
Fetching(c) == InFetch(c) /\ loc[c].sent

\* a complete body: both chunks written by one and the same fetch
Complete(body) == \E fid \in 1..MaxRequests : body = <<fid, fid>>

\* c has read the body it was served
Served(c) == res[c].kind = "body" /\ pc[c] \in {"close", "closew"}

\* c waits on the ready channel of entry e
Waiting(c, e) == pc[c] = "wait" /\ loc[c].entry = e

\* c holds an open body handle obtained from entry e
HoldsBody(c, e) == loc[c].entry = e /\ res[c].kind = "body" /\ pc[c] \in {"done", "close"}

\* c has incremented the refcount of e (or created e) and has neither closed
\* its body nor returned with an error
Holder(c, e) ==
    \/ /\ loc[c].entry = e
       /\ pc[c] \in {"wait", "err", "remove", "open", "http", "create", "copy1",
                     "copy2", "ret", "seterr", "cleanup"}
    \/ loc[c].entry = e /\ pc[c] = "store" /\ ~loc[c].cold
    \/ HoldsBody(c, e)
    \/ loc[c].entry = e /\ pc[c] = "closew"

\* the fetch that created entry e failed
CreatorFailed(e) == entries[e].err = Err(entries[e].creator)

\* C1: callers that miss the cold cache together cause one upstream request:
\* at no time are two fetches for a missing entry in flight
C1_ColdSingleFlight ==
    Cardinality({c \in Callers : Fetching(c) /\ loc[c].cold}) <= 1

\* C2: callers that find the entry expired together cause one refresh request:
\* at no time are two refreshes of one entry in flight
C2_RefreshCoalesced ==
    \A e \in DOMAIN entries :
        Cardinality({c \in Callers : Fetching(c) /\ ~loc[c].cold /\ loc[c].entry = e}) <= 1

\* C3: every served call reads a complete upstream body, never the error
\* response of a missing file, and calls served in one window read the same body
C3_ConsistentSnapshot ==
    /\ \A c \in Callers : res[c].kind # "resp500"
    /\ \A c \in Callers : Served(c) => Complete(res[c].got)
    /\ \A c, d \in Callers :
          Served(c) /\ Served(d) /\ res[c].win = res[d].win => res[c].got = res[d].got

\* C4: a fetch starts only when the map has no entry or the entry in the map
\* has aged to TTL
C4_FetchOnlyWhenStale ==
    [][\A c \in Callers :
          (pc[c] = "store" /\ pc'[c] = "http") => (cache = 0 \/ Expired(cache))]_vars

\* C5: a caller that waits on a pending entry is released when the fetch
\* finishes, and when the fetch failed it returns the error of that fetch and
\* no body
C5_WaiterRelease ==
    /\ [](\A c \in Callers :
            (loc[c].blocked /\ pc[c] \notin {"wait", "err"} /\ CreatorFailed(loc[c].entry))
               => /\ pc[c] = "done"
                  /\ res[c].kind = "err"
                  /\ res[c].err = Err(entries[loc[c].entry].creator))
    /\ \A c \in Callers : (pc[c] = "wait") ~> (pc[c] # "wait")

\* a waiter that was blocked on a pending entry has returned the error of the failed fetch
C5_Witness ==
    \E c \in Callers :
        /\ loc[c].blocked /\ pc[c] = "done"
        /\ CreatorFailed(loc[c].entry)
        /\ res[c].kind = "err" /\ res[c].err = Err(entries[loc[c].entry].creator)

\* C6: a failed fetch leaves no entry in the map: an entry of the map carries
\* an error only while the failing call is still cleaning up
C6_FailureNotCached ==
    (cache # 0 /\ entries[cache].err # NoErr)
        => \E c \in Callers : pc[c] = "cleanup" /\ loc[c].entry = cache

\* C7: the sweeper removes an entry only when it has expired, is ready, and no
\* caller waits on it or holds an open body obtained from it
C7_SweeperSafety ==
    [][(cache # 0 /\ cache' = 0 /\ pc' = pc)
          => /\ Expired(cache)
             /\ entries[cache].ready = "closed"
             /\ \A c \in Callers : ~Waiting(c, cache) /\ ~HoldsBody(c, cache)]_vars

\* C8: the refcount of the entry in the map is the number of callers that
\* incremented it and have not closed their body or returned an error, and
\* it is never negative
C8_RefcountInvariant ==
    cache # 0 =>
        /\ entries[cache].refCount >= 0
        /\ entries[cache].refCount = Cardinality({c \in Callers : Holder(c, cache)})

\* C9: the ready channel of an entry is signalled at most once
C9_ReadyRaisedOnce ==
    \A e \in DOMAIN entries : entries[e].signals <= 1

\* ------------------------------------------------------------ rep ids
\* strings are sequences of characters
Digits == <<"0", "1", "2", "3", "4", "5", "6", "7", "8", "9">>
NameChars == {"a", "_", "7"}
Types == {<<"v", "i", "d", "e", "o">>, <<"a", "u", "d", "i", "o">>, <<"t", "e", "x", "t">>}
Names == UNION {[1..n -> NameChars] : n \in 0..MaxNameLen}

\* fmt.Sprintf("%d", n)
RECURSIVE FormatUint(_)
FormatUint(n) ==
    IF n < 10 THEN <<Digits[n + 1]>>
              ELSE FormatUint(n \div 10) \o <<Digits[(n % 10) + 1]>>
FormatInt(n) == IF n < 0 THEN <<"-">> \o FormatUint(-n) ELSE FormatUint(n)

IsDigit(ch) == \E d \in 1..10 : Digits[d] = ch
DigitVal(ch) == (CHOOSE d \in 1..10 : Digits[d] = ch) - 1

RECURSIVE ParseUint(_, _)
ParseUint(s, acc) ==
    IF s = <<>> THEN acc ELSE ParseUint(Tail(s), acc * 10 + DigitVal(Head(s)))

\* strconv.Atoi(s): an optional sign followed by decimal digits
Atoi(s) ==
    LET signed == s # <<>> /\ Head(s) \in {"+", "-"}
        body == IF signed THEN Tail(s) ELSE s
    IN  IF body = <<>> \/ \E i \in 1..Len(body) : ~IsDigit(body[i])
           THEN [ok |-> FALSE, val |-> 0]
           ELSE [ok |-> TRUE,
                 val |-> IF signed /\ Head(s) = "-" THEN 0 - ParseUint(body, 0)
                                                    ELSE ParseUint(body, 0)]

\* what strings.Index(s, "_") would give: the 0-based index of the first "_"
FirstIndex(s) ==
    IF \E i \in 1..Len(s) : s[i] = "_"
       THEN (CHOOSE i \in 1..Len(s) : s[i] = "_" /\ \A j \in 1..(i - 1) : s[j] # "_") - 1
       ELSE -1

\* strings.LastIndex(s, "_"): 0-based index of the last "_", -1 if there is none
LastIndex(s) ==
    IF \E i \in 1..Len(s) : s[i] = "_"
       THEN (CHOOSE i \in 1..Len(s) : s[i] = "_" /\ \A j \in (i + 1)..Len(s) : s[j] # "_") - 1
       ELSE -1

\* SmoothToDashManifest: streamIndexName is Name, or Type when Name is empty
StreamIndexName(name, type) == IF name # <<>> THEN name ELSE type

\* SmoothToDashManifest: id := fmt.Sprintf("%s_%d", streamIndexName, qualityLevel.Index)
RepresentationID(name, type, index) ==
    StreamIndexName(name, type) \o <<"_">> \o FormatInt(index)

\* InitHandler / SegmentHandler: split qualityId on the last underscore
SplitQualityId(qualityId) ==
    LET lastUnderscore == LastIndex(qualityId) IN
    IF lastUnderscore = -1 \/ lastUnderscore = Len(qualityId) - 1
       THEN [status |-> 400, name |-> <<>>, index |-> 0]
       ELSE LET streamIndexStr == SubSeq(qualityId, 1, lastUnderscore)
                n == Atoi(SubSeq(qualityId, lastUnderscore + 2, Len(qualityId)))
            IN  IF ~n.ok THEN [status |-> 400, name |-> <<>>, index |-> 0]
                         ELSE [status |-> 200, name |-> streamIndexStr, index |-> n.val]

\* a stream index and one of its quality levels, as parsed from the MSS manifest
RepInit ==
    /\ rep \in {[RepIdle EXCEPT !.pc = "manifest", !.name = n, !.type = t, !.index = i] :
                   n \in Names, t \in Types, i \in -1..MaxIndex}
    /\ CacheInit
    /\ seg = SegIdle /\ drm = DrmIdle /\ mpd = MpdIdle /\ req = ReqIdle /\ LateIdle

\* SmoothToDashManifest publishes the representation id in the MPD
Publish ==
    /\ rep.pc = "manifest"
    /\ rep' = [rep EXCEPT !.pc = "published",
                          !.id = RepresentationID(rep.name, rep.type, rep.index)]
    /\ UNCHANGED <<cacheVars, seg, drm, mpd, req, lateVars>>

\* the client requests {repId}/init.mp4 or {repId}/{time}/...; the handler parses the id
ParseQualityId ==
    /\ rep.pc = "published"
    /\ LET r == SplitQualityId(rep.id) IN
       rep' = [rep EXCEPT !.pc = "parsed", !.status = r.status,
                          !.outName = r.name, !.outIndex = r.index]
    /\ UNCHANGED <<cacheVars, seg, drm, mpd, req, lateVars>>

RepNext == Publish \/ ParseQualityId

RepSpec == RepInit /\ [][RepNext]_vars

\* C10: a published representation id, split on its last underscore by the
\* handlers, gives back the stream name-or-type and the quality index it was
\* built from, also when the name itself contains underscores
C10_RepIdRoundTrip ==
    rep.pc = "parsed" =>
        /\ rep.status = 200
        /\ rep.outName = StreamIndexName(rep.name, rep.type)
        /\ rep.outIndex = rep.index

\* a name with an underscore and a two-digit index went through the round trip
C10_Witness ==
    /\ rep.pc = "parsed"
    /\ rep.name = <<"a", "_", "7">>
    /\ rep.index = 10
    /\ rep.outName = <<"a", "_", "7">> /\ rep.outIndex = 10

\* ------------------------------------------------- init segments, fragments
MaxTrackID     == 2    \* largest tfhd track id the origin sends
MaxDataOffset  == 1    \* largest trun data offset the origin sends
MaxDecodeTime  == 1    \* largest tfdt time of the origin and largest {time} of the request
MaxTrafOthers  == 3    \* children of a traf besides tfhd
MaxPasses      == 2    \* times one fragment is repackaged

StreamTypes == {"video", "audio", "text"}

\* mp4ff InitSegment.AddEmptyTrack: the new trak gets id len(moov.Traks) + 1
AddEmptyTrack(traks, mediaType) ==
    Append(traks, [trackID |-> Len(traks) + 1, mediaType |-> mediaType, descriptor |-> "none"])

\* NewBaseInitSegment: ftyp, moov with mvhd and mvex, one empty track
NewBaseInitSegment(trackType) == AddEmptyTrack(<<>>, trackType)

\* init.Moov.Trak is the first trak of the moov; Set...Descriptor fills its stsd
SetDescriptor(traks, descriptor) == [traks EXCEPT ![1].descriptor = descriptor]

\* AVCInitSegment.Generate / AACInitSegment.Generate / De3InitSegment.Generate:
\* an error when the codec private data does not parse, else a base init
\* segment whose first trak gets the sample description
GenerateAV(trackType, descriptor, cpdOk) ==
    IF ~cpdOk THEN [err |-> TRUE, traks |-> <<>>]
              ELSE [err |-> FALSE,
                    traks |-> SetDescriptor(NewBaseInitSegment(trackType), descriptor)]

\* STPPInitSegment.Generate: a base init segment of track type "audio", then
\* AddEmptyTrack(..., "subtitle"), then the stpp descriptor on init.Moov.Trak
GenerateSTPP ==
    [err |-> FALSE,
     traks |-> SetDescriptor(AddEmptyTrack(NewBaseInitSegment("audio"), "subtitle"), "stpp")]

\* boxes of a traf
Box(t) == [type |-> t, time |-> 0]
Tfdt(t) == [type |-> "tfdt", time |-> t]
OtherBoxes == {Box("trun"), Box("sdtp"), Box("uuid")} \cup {Tfdt(t) : t \in 0..MaxDecodeTime}

Count(s, t) == Cardinality({i \in 1..Len(s) : s[i].type = t})

\* the traf of a fragment as mp4.DecodeFile returns it: tfhd, then one trun
\* and at most one tfdt among the other children, in any order
TrafChildren ==
    {<<Box("tfhd")>> \o rest :
        rest \in {r \in UNION {[1..n -> OtherBoxes] : n \in 1..MaxTrafOthers} :
                     Count(r, "trun") = 1 /\ Count(r, "tfdt") <= 1}}

\* append(Children[:i], Children[i+1:]...) on a slice of length len backed by
\* arr: the elements behind index i move down one place inside the backing
\* array, whose last used cell keeps its old value
RemoveAt(arr, len, i) ==
    [j \in 1..Len(arr) |-> IF j - 1 >= i /\ j < len THEN arr[j + 1] ELSE arr[j]]

\* ProcessVideoSegment, the loop "for i, child := range fragment.Moof.Traf.Children":
\* the range runs over the original length and reads the backing array as it
\* is at each iteration; Children[i+1:] panics when i+1 exceeds the current length
RECURSIVE RangeChildren(_, _, _, _)
RangeChildren(arr, len, i, hasTfdt) ==
    IF i >= Len(arr)
       THEN [panic |-> FALSE, children |-> SubSeq(arr, 1, len), hasTfdt |-> hasTfdt]
       ELSE LET child == arr[i + 1] IN
            IF child.type = "sdtp"
               THEN IF i + 1 > len
                       THEN [panic |-> TRUE, children |-> <<>>, hasTfdt |-> hasTfdt]
                       ELSE RangeChildren(RemoveAt(arr, len, i), len - 1, i + 1, hasTfdt)
               ELSE RangeChildren(arr, len, i + 1, hasTfdt \/ child.type = "tfdt")

\* the loops of ProcessAudioSegment and ProcessSubtitleSegment
HasTfdt(children) == \E i \in 1..Len(children) : children[i].type = "tfdt"

\* Traf.AddChild(mp4.CreateTfdt(chunkId)) when no tfdt was seen
AddTfdt(children, hasTfdt, chunkId) ==
    IF hasTfdt THEN children ELSE Append(children, Tfdt(chunkId))

\* ProcessVideoSegment on one fragment
ProcessVideoFragment(frag, chunkId) ==
    LET r == RangeChildren(frag.children, Len(frag.children), 0, FALSE) IN
    IF r.panic THEN [frag EXCEPT !.panic = TRUE]
               ELSE [frag EXCEPT !.trackID = 1, !.dataOffset = 0,
                                 !.children = AddTfdt(r.children, r.hasTfdt, chunkId)]

\* ProcessAudioSegment on one fragment
ProcessAudioFragment(frag, chunkId) ==
    [frag EXCEPT !.trackID = 1, !.dataOffset = 0,
                 !.children = AddTfdt(frag.children, HasTfdt(frag.children), chunkId)]

\* ProcessSubtitleSegment on one fragment (traf part)
ProcessSubtitleFragment(frag, chunkId) ==
    [frag EXCEPT !.trackID = 1,
                 !.children = AddTfdt(frag.children, HasTfdt(frag.children), chunkId)]

Codecs == {"avc1", "aacl", "ec-3", "ttml"}

\* an init request for one codec, or a fetched chunk of one stream type
SegInit ==
    /\ seg \in
         {[pc |-> "init", codec |-> c, cpdOk |-> ok, err |-> FALSE, traks |-> <<>>] :
             c \in Codecs, ok \in BOOLEAN}
         \cup
         {[pc |-> "chunk", type |-> t, time |-> tm, pass |-> 0,
           in |-> [trackID |-> id, dataOffset |-> off, children |-> ch, panic |-> FALSE],
           out |-> <<>>] :
             t \in StreamTypes, tm \in 0..MaxDecodeTime, id \in 1..MaxTrackID,
             off \in 0..MaxDataOffset, ch \in TrafChildren}
    /\ CacheInit
    /\ rep = RepIdle /\ drm = DrmIdle /\ mpd = MpdIdle /\ req = ReqIdle /\ LateIdle

SegGenerated(r) == seg' = [seg EXCEPT !.pc = "generated", !.err = r.err, !.traks = r.traks]

\* InitHandler, case "video"
GenerateAVC ==
    /\ seg.pc = "init" /\ seg.codec = "avc1"
    /\ SegGenerated(GenerateAV("video", "avc1", seg.cpdOk))
    /\ UNCHANGED <<cacheVars, rep, drm, mpd, req, lateVars>>

\* InitHandler, case "audio" with FourCC AACL
GenerateAAC ==
    /\ seg.pc = "init" /\ seg.codec = "aacl"
    /\ SegGenerated(GenerateAV("audio", "mp4a", seg.cpdOk))
    /\ UNCHANGED <<cacheVars, rep, drm, mpd, req, lateVars>>

\* InitHandler, case "audio" with FourCC EC-3
GenerateDe3 ==
    /\ seg.pc = "init" /\ seg.codec = "ec-3"
    /\ SegGenerated(GenerateAV("audio", "ec-3", seg.cpdOk))
    /\ UNCHANGED <<cacheVars, rep, drm, mpd, req, lateVars>>

\* InitHandler, case "text" with FourCC TTML
GenerateTTML ==
    /\ seg.pc = "init" /\ seg.codec = "ttml"
    /\ SegGenerated(GenerateSTPP)
    /\ UNCHANGED <<cacheVars, rep, drm, mpd, req, lateVars>>

\* the fragment a pass works on: the origin's, then the output of the pass before
PassInput == IF seg.pass = 0 THEN seg.in ELSE seg.out[seg.pass]

SegProcessed(frag) ==
    seg' = [seg EXCEPT !.pass = @ + 1, !.out = Append(@, frag)]

\* SegmentHandler, case "video"
ProcessVideoSegment ==
    /\ seg.pc = "chunk" /\ seg.type = "video"
    /\ seg.pass < MaxPasses /\ ~PassInput.panic
    /\ SegProcessed(ProcessVideoFragment(PassInput, seg.time))
    /\ UNCHANGED <<cacheVars, rep, drm, mpd, req, lateVars>>

\* SegmentHandler, case "audio"
ProcessAudioSegment ==
    /\ seg.pc = "chunk" /\ seg.type = "audio"
    /\ seg.pass < MaxPasses
    /\ SegProcessed(ProcessAudioFragment(PassInput, seg.time))
    /\ UNCHANGED <<cacheVars, rep, drm, mpd, req, lateVars>>

\* SegmentHandler, case "text"
ProcessSubtitleSegment ==
    /\ seg.pc = "chunk" /\ seg.type = "text"
    /\ seg.pass < MaxPasses
    /\ SegProcessed(ProcessSubtitleFragment(PassInput, seg.time))
    /\ UNCHANGED <<cacheVars, rep, drm, mpd, req, lateVars>>

SegNext ==
    \/ GenerateAVC \/ GenerateAAC \/ GenerateDe3 \/ GenerateTTML
    \/ ProcessVideoSegment \/ ProcessAudioSegment \/ ProcessSubtitleSegment

SegSpec == SegInit /\ [][SegNext]_vars

\* an init segment was emitted
Emitted == seg.pc = "generated" /\ ~seg.err

\* the fragment was repackaged n times without a panic
Repackaged(n) == seg.pc = "chunk" /\ seg.pass >= n /\ ~seg.out[n].panic

TfdtTimes(frag) ==
    {frag.children[i].time : i \in {j \in 1..Len(frag.children) : frag.children[j].type = "tfdt"}}

\* C11: an emitted init segment has one trak, with track id 1, and a
\* repackaged fragment has tfhd track id 1
C11_TrackIdOne ==
    /\ Emitted => Len(seg.traks) = 1 /\ seg.traks[1].trackID = 1
    /\ Repackaged(1) => seg.out[1].trackID = 1

\* C12: a repackaged fragment has exactly one tfdt: the origin's when the
\* origin sent one, else one carrying the request's time; a second pass
\* changes nothing
C12_TfdtPreserved ==
    /\ Repackaged(1) =>
          /\ Count(seg.out[1].children, "tfdt") = 1
          /\ TfdtTimes(seg.out[1]) =
                IF HasTfdt(seg.in.children) THEN TfdtTimes(seg.in) ELSE {seg.time}
    /\ Repackaged(2) => seg.out[2] = seg.out[1]

\* C20: a repackaged fragment of any stream type has trun data offset 0
C20_DataOffsetReset ==
    Repackaged(1) => seg.out[1].dataOffset = 0

\* the children of a traf that are neither sdtp nor tfdt, in order
RECURSIVE Others(_)
Others(children) ==
    IF children = <<>> THEN <<>>
    ELSE IF Head(children).type \in {"sdtp", "tfdt"} THEN Others(Tail(children))
    ELSE <<Head(children)>> \o Others(Tail(children))

\* C24: a repackaged video or audio fragment has no sdtp child, and its
\* other children are those of the input, in the same order
C24_SdtpRemoved ==
    (seg.pc = "chunk" /\ seg.type \in {"video", "audio"} /\ seg.pass >= 1) =>
        /\ ~seg.out[1].panic
        /\ Count(seg.out[1].children, "sdtp") = 0
        /\ Others(seg.out[1].children) = Others(seg.in.children)

\* ------------------------------------------------------ PlayReady key info
MaxKidSeed     == 3    \* KID bytes are (seed + step * i) % 256
MaxKidStep     == 2
MaxKidLen      == 17   \* longest value decoded from <KID>...</KID>
MaxProtections == 2    \* ProtectionHeader elements of a manifest

\* the bytes the base64 text inside <KID> decodes to
KidBytes(seed, step, len) == [i \in 1..len |-> (seed + step * (i - 1)) % 256]

\* what the regexp and the base64 decoder find in a decoded PlayReady object
PsshData ==
    {[match |-> FALSE, b64ok |-> TRUE, keyBytes |-> <<>>],
     [match |-> TRUE, b64ok |-> FALSE, keyBytes |-> <<>>]}
    \cup {[match |-> TRUE, b64ok |-> TRUE, keyBytes |-> KidBytes(s, st, n)] :
             s \in 0..MaxKidSeed, st \in 0..MaxKidStep, n \in 15..MaxKidLen}

\* a byte order that reverses the whole first half of the GUID
UuidReversed(keyBytes) ==
    <<keyBytes[8], keyBytes[7], keyBytes[6], keyBytes[5],
      keyBytes[4], keyBytes[3], keyBytes[2], keyBytes[1],
      keyBytes[9], keyBytes[10],
      keyBytes[11], keyBytes[12], keyBytes[13], keyBytes[14], keyBytes[15], keyBytes[16]>>

\* ExtractPRKeyIdFromPssh: uuid := []byte{keyBytes[3], keyBytes[2], ...} (0-based in the code)
Uuid(keyBytes) ==
    <<keyBytes[4], keyBytes[3], keyBytes[2], keyBytes[1],
      keyBytes[6], keyBytes[5],
      keyBytes[8], keyBytes[7],
      keyBytes[9], keyBytes[10],
      keyBytes[11], keyBytes[12], keyBytes[13], keyBytes[14], keyBytes[15], keyBytes[16]>>

\* a nil []byte, and the nil pssh of an error return
Nil == <<>>
NoPssh == [match |-> FALSE, b64ok |-> FALSE, keyBytes |-> <<>>]

\* ExtractPRKeyIdFromPssh(data): (nil, nil) without a match or with a length
\* other than 16, (nil, err) when base64 fails, else the rearranged bytes
ExtractPRKeyIdFromPssh(data) ==
    IF ~data.match THEN [kid |-> Nil, err |-> FALSE]
    ELSE IF ~data.b64ok THEN [kid |-> Nil, err |-> TRUE]
    ELSE IF Len(data.keyBytes) # 16 THEN [kid |-> Nil, err |-> FALSE]
    ELSE [kid |-> Uuid(data.keyBytes), err |-> FALSE]

\* a ProtectionHeader: its SystemID is PlayReady's or not, its CustomData
\* decodes as base64 or not
OtherHeader == [playReady |-> FALSE, dataOk |-> TRUE, pssh |-> NoPssh]
Headers ==
    {OtherHeader, [playReady |-> TRUE, dataOk |-> FALSE, pssh |-> NoPssh]}
    \cup {[playReady |-> TRUE, dataOk |-> TRUE, pssh |-> d] : d \in PsshData}

\* smoothStream.Protection: headers of other systems, then any header, then
\* possibly one more PlayReady header
Protections ==
    {[i \in 1..n |-> OtherHeader] \o <<h>> \o more :
        n \in 0..(MaxProtections - 1), h \in Headers,
        more \in {<<>>, <<[playReady |-> TRUE, dataOk |-> TRUE,
                          pssh |-> [match |-> TRUE, b64ok |-> TRUE,
                                    keyBytes |-> KidBytes(0, 0, 16)]]>>}}

\* channel.Keys: nil, or a list of "keyId:keyData" strings; a string is
\* malformed, or names the key id of KidBytes(0, 1, 16) in UUID or in GUID order
ChannelKeys ==
    {[isNil |-> TRUE, list |-> <<>>], [isNil |-> FALSE, list |-> <<>>]}
    \cup {[isNil |-> FALSE, list |-> <<k>>] :
             k \in {[ok |-> FALSE, keyID |-> <<>>, key |-> <<>>],
                    [ok |-> TRUE, keyID |-> Uuid(KidBytes(0, 1, 16)), key |-> <<1>>],
                    [ok |-> TRUE, keyID |-> KidBytes(0, 1, 16), key |-> <<2>>]}}

\* Channel.GetKey
RECURSIVE GetKeyFrom(_, _)
GetKeyFrom(keys, keyID) ==
    IF keys = <<>> THEN [key |-> Nil, err |-> "key not found"]
    ELSE IF ~Head(keys).ok THEN [key |-> Nil, err |-> "invalid key"]
    ELSE IF Head(keys).keyID = keyID THEN [key |-> Head(keys).key, err |-> ""]
    ELSE GetKeyFrom(Tail(keys), keyID)
GetKey(keys, keyID) == GetKeyFrom(keys.list, keyID)

\* index of the first PlayReady header, 0 when there is none
FirstPlayReady(protections) ==
    IF \E i \in 1..Len(protections) : protections[i].playReady
       THEN CHOOSE i \in 1..Len(protections) :
               protections[i].playReady /\ \A j \in 1..(i - 1) : ~protections[j].playReady
       ELSE 0

DrmFailed(e) == [keyId |-> Nil, key |-> Nil, pssh |-> NoPssh, err |-> e]

\* ExtractKeyInfo, the loop over the protections up to "if keyId == nil"
ExtractKeyInfoKid(protections) ==
    LET i == FirstPlayReady(protections) IN
    IF i = 0 THEN DrmFailed("no PlayReady key ID found")
    ELSE IF ~protections[i].dataOk THEN DrmFailed("error decoding PSSH")
    ELSE LET r == ExtractPRKeyIdFromPssh(protections[i].pssh) IN
         IF r.err THEN DrmFailed("error extracting key ID")
         ELSE IF r.kid = Nil THEN DrmFailed("no PlayReady key ID found")
         ELSE [keyId |-> r.kid, key |-> Nil, pssh |-> protections[i].pssh, err |-> ""]

\* ExtractKeyInfo from channel.GetKey to the return
ExtractKeyInfoKey(found, keys) ==
    LET r == GetKey(keys, found.keyId) IN
    IF r.err # ""
       THEN IF r.err = "key not found" /\ ~keys.isNil
               THEN [found EXCEPT !.key = Nil, !.err = "key not found"]
               ELSE DrmFailed("error fetching key")
       ELSE [found EXCEPT !.key = r.key]

\* a manifest with protection headers and the channel of the request
DrmInit ==
    /\ drm \in {[pc |-> "protected", protections |-> p, keys |-> k,
                 out |-> DrmFailed(""), status |-> 0] :
                   p \in Protections, k \in ChannelKeys}
    /\ CacheInit
    /\ rep = RepIdle /\ seg = SegIdle /\ mpd = MpdIdle /\ req = ReqIdle /\ LateIdle

\* ExtractKeyInfo finds the key id, or returns an error
ExtractKeyId ==
    /\ drm.pc = "protected"
    /\ LET r == ExtractKeyInfoKid(drm.protections) IN
       drm' = [drm EXCEPT !.pc = IF r.err = "" THEN "kid" ELSE "returned", !.out = r]
    /\ UNCHANGED <<cacheVars, rep, seg, mpd, req, lateVars>>

\* ExtractKeyInfo looks the key up and returns
LookupKey ==
    /\ drm.pc = "kid"
    /\ drm' = [drm EXCEPT !.pc = "returned", !.out = ExtractKeyInfoKey(drm.out, drm.keys)]
    /\ UNCHANGED <<cacheVars, rep, seg, mpd, req, lateVars>>

\* SegmentHandler: "DRM Error" with status 500, or the request goes on
DrmRespond ==
    /\ drm.pc = "returned"
    /\ drm' = [drm EXCEPT !.pc = "done", !.status = IF drm.out.err # "" THEN 500 ELSE 200]
    /\ UNCHANGED <<cacheVars, rep, seg, mpd, req, lateVars>>

DrmNext == ExtractKeyId \/ LookupKey \/ DrmRespond

DrmSpec == DrmInit /\ [][DrmNext]_vars

\* the KID bytes of the first PlayReady header, when it has a 16-byte KID
HeaderKid ==
    LET i == FirstPlayReady(drm.protections) IN
    IF i # 0 /\ drm.protections[i].dataOk
       /\ drm.protections[i].pssh.match /\ drm.protections[i].pssh.b64ok
       /\ Len(drm.protections[i].pssh.keyBytes) = 16
       THEN drm.protections[i].pssh.keyBytes ELSE Nil

\* C13: with a PlayReady header that carries a key id and a channel without
\* keys, key extraction returns (kid, nil, pssh) without an error and the
\* request is not answered with a DRM error
C13_PassThrough ==
    (drm.pc = "done" /\ HeaderKid # Nil /\ drm.keys.isNil) =>
        /\ drm.out.err = "" /\ drm.status = 200
        /\ drm.out.keyId # Nil /\ drm.out.key = Nil
        /\ drm.out.pssh = drm.protections[FirstPlayReady(drm.protections)].pssh

\* C14: the key id extracted from a 16-byte KID B is
\* [B3,B2,B1,B0, B5,B4, B7,B6, B8..B15], and the same reordering applied to
\* it gives B back
C14_KidByteOrder ==
    (drm.pc = "kid" /\ HeaderKid # Nil) =>
        LET B == HeaderKid
            order == <<3, 2, 1, 0, 5, 4, 7, 6, 8, 9, 10, 11, 12, 13, 14, 15>>
        IN  /\ Len(drm.out.keyId) = 16
            /\ \A i \in 0..15 : drm.out.keyId[i + 1] = B[order[i + 1] + 1]
            /\ Uuid(drm.out.keyId) = B

\* a KID of sixteen different bytes was extracted
C14_Witness ==
    /\ drm.pc = "kid"
    /\ HeaderKid = KidBytes(1, 2, 16)
    /\ drm.out.keyId[1] = 7 /\ drm.out.keyId[4] = 1

\* ------------------------------------------------------------------ MPD
MaxStreams  == 3    \* StreamIndex elements of a manifest
MaxDuration == 1    \* largest Duration and DVRWindowLength, in seconds
MaxChunks   == 1    \* chunks listed for a stream index

\* a StreamIndex: its Type, and whether the CodecPrivateData of its quality
\* level parses (video only)
StreamIndexes ==
    LET kinds == {[type |-> t, cpdOk |-> TRUE] : t \in StreamTypes}
                 \cup {[type |-> "video", cpdOk |-> FALSE]}
    IN  UNION {[1..n -> kinds] : n \in 0..MaxStreams}

\* the ProtectionHeader of the manifest: none, one of another DRM system, or
\* PlayReady's with CustomData that is base64, empty or not base64
ProtectionKinds == {"none", "other", "playready", "playready-empty", "playready-bad"}

\* ismManifest.GetProtectionHeaderForSystemId(mp4.UUIDPlayReady) != nil
PlayReadyHeader(m) == m.protection \in {"playready", "playready-empty", "playready-bad"}

\* DashManifestHandler: hasKeys is channel.Keys != nil
HasKeys(keys) == ~keys.isNil

\* the switch on streamIndex.Type behind the adaptation set: a
\* ContentProtection descriptor on video only
ContentProtectedVideoOnly(type, hasKeys, playReady) ==
    type = "video" /\ ~hasKeys /\ playReady

\* the switch on streamIndex.Type behind the adaptation set: a
\* ContentProtection descriptor on video and on audio
ContentProtected(type, hasKeys, playReady) ==
    type \in {"video", "audio"} /\ ~hasKeys /\ playReady

\* an adaptation set numbered by its place in the MPD
AdaptationSetIDByPlace(index, sets) == Len(sets)

\* ID: strconv.FormatInt(int64(index), 10), index being the range index of
\* the stream index
AdaptationSetID(index, sets) == index

\* the loop over ismManifest.StreamIndexes from index on, sets being the
\* adaptation sets appended so far
RECURSIVE AdaptationSets(_, _, _, _)
AdaptationSets(m, p, index, sets) ==
    IF index >= Len(m.streams) THEN [err |-> FALSE, sets |-> sets]
    ELSE LET streamIndex == m.streams[index + 1]
             adaptationSet ==
                [id |-> AdaptationSetID(index, sets),
                 contentType |-> streamIndex.type,
                 chunks |-> m.chunks,
                 contentProtection |->
                     ContentProtected(streamIndex.type, p.hasKeys, PlayReadyHeader(m)),
                 proData |-> m.protection = "playready"]
         IN  IF ~streamIndex.cpdOk THEN [err |-> TRUE, sets |-> <<>>]
             ELSE IF streamIndex.type = "text" /\ ~p.allowSubs
                     THEN AdaptationSets(m, p, index + 1, sets)
                     ELSE AdaptationSets(m, p, index + 1, Append(sets, adaptationSet))

\* broadcastType
BroadcastType(isLive) == IF isLive THEN "dynamic" ELSE "static"

\* MediaPresentationDuration set for every manifest with a Duration
HasMediaPresentationDurationAlways(m) == m.duration > 0

\* MediaPresentationDuration is set when !IsLive && Duration > 0
HasMediaPresentationDuration(m) == ~m.isLive /\ m.duration > 0

NoMPD == [err |-> TRUE, type |-> "", minimumUpdatePeriod |-> FALSE,
          timeShiftBufferDepth |-> FALSE, mediaPresentationDuration |-> FALSE,
          xmlnsMspr |-> FALSE, xmlnsCenc |-> FALSE, sets |-> <<>>]

\* SmoothToDashManifest(ismManifest, hasKeys, allowSubs, channel)
SmoothToDashManifest(m, p) ==
    IF m.protection = "playready-bad" THEN NoMPD
    ELSE LET a == AdaptationSets(m, p, 0, <<>>) IN
         IF a.err THEN NoMPD
         ELSE [err |-> FALSE,
               type |-> BroadcastType(m.isLive),
               minimumUpdatePeriod |-> m.isLive,
               timeShiftBufferDepth |-> m.isLive /\ m.dvrWindowLength > 0,
               mediaPresentationDuration |-> HasMediaPresentationDuration(m),
               xmlnsMspr |-> ~p.hasKeys /\ PlayReadyHeader(m),
               xmlnsCenc |-> ~p.hasKeys /\ PlayReadyHeader(m),
               sets |-> a.sets]

\* XML text is a sequence of characters; "@" stands for the attributes of a
\* tag and "#" for escaped character data
Letters ==
    {"a", "b", "c", "d", "e", "f", "g", "h", "i", "j", "k", "l", "m", "n", "o", "p", "q",
     "r", "s", "t", "u", "v", "w", "x", "y", "z", "A", "B", "C", "D", "E", "F", "G", "H",
     "I", "J", "K", "L", "M", "N", "O", "P", "Q", "R", "S", "T", "U", "V", "W", "X", "Y", "Z"}

\* the element names of the MPD structs
Tag ==
    [MPD |-> <<"M", "P", "D">>,
     Period |-> <<"P", "e", "r", "i", "o", "d">>,
     AdaptationSet |-> <<"A", "d", "a", "p", "t", "a", "t", "i", "o", "n", "S", "e", "t">>,
     AudioChannelConfiguration |->
        <<"A", "u", "d", "i", "o", "C", "h", "a", "n", "n", "e", "l",
          "C", "o", "n", "f", "i", "g", "u", "r", "a", "t", "i", "o", "n">>,
     ContentProtection |->
        <<"C", "o", "n", "t", "e", "n", "t", "P", "r", "o", "t", "e", "c", "t", "i", "o", "n">>,
     Pro |-> <<"m", "s", "p", "r", ":", "p", "r", "o">>,
     Pssh |-> <<"c", "e", "n", "c", ":", "p", "s", "s", "h">>,
     SegmentTemplate |->
        <<"S", "e", "g", "m", "e", "n", "t", "T", "e", "m", "p", "l", "a", "t", "e">>,
     SegmentTimeline |->
        <<"S", "e", "g", "m", "e", "n", "t", "T", "i", "m", "e", "l", "i", "n", "e">>,
     S |-> <<"S">>,
     Representation |->
        <<"R", "e", "p", "r", "e", "s", "e", "n", "t", "a", "t", "i", "o", "n">>]

\* encoding/xml with Indent("", "  "): one line per tag; an element without
\* child elements is written as start tag, character data, end tag
StartTag(depth, tag) ==
    [i \in 1..(2 * depth) |-> " "] \o <<"<">> \o tag \o <<" ", "@", ">">>
EndTag(depth, tag) == [i \in 1..(2 * depth) |-> " "] \o <<"<", "/">> \o tag \o <<">">>
Leaf(depth, tag, text) == StartTag(depth, tag) \o text \o EndTag(0, tag)

RECURSIVE Flatten(_)
Flatten(ss) == IF ss = <<>> THEN <<>> ELSE Head(ss) \o Flatten(Tail(ss))

\* the lines xml.Encoder writes for one adaptation set
AdaptationSetLines(set) ==
    <<StartTag(2, Tag.AdaptationSet)>>
    \o (IF set.contentType = "audio"
           THEN <<Leaf(3, Tag.AudioChannelConfiguration, <<>>)>>
           ELSE <<>>)
    \o (IF set.contentProtection
           THEN <<StartTag(3, Tag.ContentProtection),
                  Leaf(4, Tag.Pro, IF set.proData THEN <<"#">> ELSE <<>>),
                  Leaf(4, Tag.Pssh, <<"#">>),
                  EndTag(3, Tag.ContentProtection)>>
           ELSE <<>>)
    \o <<StartTag(3, Tag.SegmentTemplate)>>
    \o (IF set.chunks = 0
           THEN <<Leaf(4, Tag.SegmentTimeline, <<>>)>>
           ELSE <<StartTag(4, Tag.SegmentTimeline)>>
                \o [i \in 1..set.chunks |-> Leaf(5, Tag.S, <<>>)]
                \o <<EndTag(4, Tag.SegmentTimeline)>>)
    \o <<EndTag(3, Tag.SegmentTemplate),
         Leaf(3, Tag.Representation, <<>>),
         EndTag(2, Tag.AdaptationSet)>>

\* e.Encode(m): the lines of the whole document
MarshalIndent(d) ==
    <<StartTag(0, Tag.MPD), StartTag(1, Tag.Period)>>
    \o Flatten([i \in 1..Len(d.sets) |-> AdaptationSetLines(d.sets[i])])
    \o <<EndTag(1, Tag.Period), EndTag(0, Tag.MPD)>>

\* number of letters at the head of s
RECURSIVE LettersAhead(_)
LettersAhead(s) ==
    IF s # <<>> /\ Head(s) \in Letters THEN 1 + LettersAhead(Tail(s)) ELSE 0

\* emptyElementRE.ReplaceAllString(s, "/>") with the pattern ></[A-Za-z]+>
RECURSIVE ReplaceEmptyElements(_)
ReplaceEmptyElements(s) ==
    IF s = <<>> THEN <<>>
    ELSE LET n == IF Len(s) >= 3 THEN LettersAhead(SubSeq(s, 4, Len(s))) ELSE 0
             hit == /\ Len(s) >= 5 /\ s[1] = ">" /\ s[2] = "<" /\ s[3] = "/"
                    /\ n >= 1 /\ Len(s) >= n + 4 /\ s[n + 4] = ">"
         IN  IF hit THEN <<"/", ">">> \o ReplaceEmptyElements(SubSeq(s, n + 5, Len(s)))
                    ELSE <<Head(s)>> \o ReplaceEmptyElements(Tail(s))

\* MPD.Encode: the XML declaration, then every line of the encoder's output
\* after the replacement
EncodeMPD(d) ==
    LET lines == MarshalIndent(d) IN
    <<<<"<", "?", "x", "m", "l", " ", "@", "?", ">">>>>
    \o [i \in 1..Len(lines) |-> ReplaceEmptyElements(lines[i])]

\* a fetched manifest, the channel of the request and the allow_subs setting;
\* Duration, DVRWindowLength and the chunk count are absent or at their largest
MpdInit ==
    /\ mpd \in {[pc |-> "manifest",
                 m |-> [isLive |-> live, duration |-> d, dvrWindowLength |-> w,
                        protection |-> pk, chunks |-> n, streams |-> ss],
                 keys |-> k, allowSubs |-> subs,
                 hasKeys |-> FALSE, out |-> NoMPD, xml |-> <<>>, status |-> 0] :
                   live \in BOOLEAN, d \in {0, MaxDuration}, w \in {0, MaxDuration},
                   pk \in ProtectionKinds, n \in {0, MaxChunks}, ss \in StreamIndexes,
                   k \in {[isNil |-> TRUE, list |-> <<>>], [isNil |-> FALSE, list |-> <<>>]},
                   subs \in BOOLEAN}
    /\ CacheInit
    /\ rep = RepIdle /\ seg = SegIdle /\ drm = DrmIdle /\ req = ReqIdle /\ LateIdle

\* DashManifestHandler up to the return of SmoothToDashManifest
TransformManifest ==
    /\ mpd.pc = "manifest"
    /\ LET p == [hasKeys |-> HasKeys(mpd.keys), allowSubs |-> mpd.allowSubs]
           d == SmoothToDashManifest(mpd.m, p)
       IN  mpd' = [mpd EXCEPT !.pc = IF d.err THEN "failed" ELSE "built",
                              !.hasKeys = p.hasKeys, !.out = d]
    /\ UNCHANGED <<cacheVars, rep, seg, drm, req, lateVars>>

\* DashManifestHandler: "Error transforming manifest"
TransformError ==
    /\ mpd.pc = "failed"
    /\ mpd' = [mpd EXCEPT !.pc = "answered", !.status = 500]
    /\ UNCHANGED <<cacheVars, rep, seg, drm, req, lateVars>>

\* DashManifestHandler: mpd.Encode() and the 200 answer
EncodeManifest ==
    /\ mpd.pc = "built"
    /\ mpd' = [mpd EXCEPT !.pc = "answered", !.status = 200, !.xml = EncodeMPD(mpd.out)]
    /\ UNCHANGED <<cacheVars, rep, seg, drm, req, lateVars>>

MpdNext == TransformManifest \/ TransformError \/ EncodeManifest

MpdSpec == MpdInit /\ [][MpdNext]_vars

\* an MPD was built
Built == mpd.pc \in {"built", "answered"} /\ ~mpd.out.err

C16_SubtitleToggle ==
    (Built /\ ~mpd.allowSubs) =>
        LET sets == mpd.out.sets
            streams == mpd.m.streams
        IN  /\ \A i \in 1..Len(sets) : sets[i].contentType # "text"
            /\ \A k \in 1..Len(streams) :
                  streams[k].type \in {"video", "audio"} =>
                     \E i \in 1..Len(sets) :
                        sets[i].id = k - 1 /\ sets[i].contentType = streams[k].type
            /\ \A i, j \in 1..Len(sets) : i < j => sets[i].id < sets[j].id
            /\ Len(sets) = Cardinality({k \in 1..Len(streams) : streams[k].type # "text"})

\* a text stream ahead of an audio stream was left out and the audio set kept its id
C16_Witness ==
    /\ Built /\ ~mpd.allowSubs
    /\ Len(mpd.m.streams) = 3
    /\ mpd.m.streams[1].type = "video" /\ mpd.m.streams[2].type = "text"
    /\ mpd.m.streams[3].type = "audio"
    /\ Len(mpd.out.sets) = 2 /\ mpd.out.sets[2].id = 2

\* C17: the MPD is dynamic exactly for a live presentation;
\* minimumUpdatePeriod and timeShiftBufferDepth come only with dynamic,
\* mediaPresentationDuration only with static
C17_MpdType ==
    Built =>
        /\ (mpd.out.type = "dynamic") <=> mpd.m.isLive
        /\ (mpd.out.type = "static") <=> ~mpd.m.isLive
        /\ mpd.out.minimumUpdatePeriod => mpd.out.type = "dynamic"
        /\ mpd.out.timeShiftBufferDepth => mpd.out.type = "dynamic"
        /\ mpd.out.mediaPresentationDuration => mpd.out.type = "static"

\* a live presentation that also carries a Duration gave a dynamic MPD
C17_Witness ==
    /\ Built /\ mpd.m.isLive /\ mpd.m.duration > 0 /\ mpd.m.dvrWindowLength > 0
    /\ mpd.out.type = "dynamic" /\ mpd.out.timeShiftBufferDepth
    /\ ~mpd.out.mediaPresentationDuration

\* C18: no line of the serialized MPD holds a start tag directly followed by
\* an end tag
C18_NoEmptyElementPairs ==
    mpd.pc = "answered" =>
        \A i \in 1..Len(mpd.xml) :
            \A k \in 1..(Len(mpd.xml[i]) - 2) :
                ~(mpd.xml[i][k] = ">" /\ mpd.xml[i][k + 1] = "<" /\ mpd.xml[i][k + 2] = "/")

\* ------------------------------------------------------- handler lookups
MaxReqStreams    == 2    \* StreamIndex elements of the requested manifest
MaxQualityLevels == 1    \* QualityLevel elements of a stream index

\* stream indexes with a Name ("" when the manifest gives none), a Type and
\* quality levels of Index 0..levels-1
ReqStreams ==
    LET kinds == [name : {"", "video", "audio_deu"},
                  type : {"video", "audio", "other"},
                  levels : 0..MaxQualityLevels]
    IN  UNION {[1..n -> kinds] : n \in 0..MaxReqStreams}

\* GetStreamIndexByNameOrType: the first stream index of that Name, else the
\* first of that Type; 0 stands for the error
GetStreamIndexByNameOrType(streams, name) ==
    LET byName == {i \in 1..Len(streams) : streams[i].name = name}
        byType == {i \in 1..Len(streams) : streams[i].type = name}
        First(S) == CHOOSE i \in S : \A j \in S : i <= j
    IN  IF byName # {} THEN First(byName)
        ELSE IF byType # {} THEN First(byType)
        ELSE 0

\* GetQualityLevelByIndex: whether a quality level of that Index exists
GetQualityLevelByIndex(si, index) == index \in 0..(si.levels - 1)

\* an init or segment request after the rep id was split into
\* streamIndexStr and qualityLevelIndex and the manifest was fetched
ReqInit ==
    /\ req \in {[pc |-> "manifest", handler |-> h, streams |-> ss,
                 streamIndexStr |-> s, qualityLevelIndex |-> q,
                 streamIndex |-> 0, status |-> 0,
                 generated |-> FALSE, fetched |-> FALSE] :
                   h \in {"init", "segment"}, ss \in ReqStreams,
                   s \in {"video", "audio", "audio_deu", "text"},
                   q \in 0..(MaxQualityLevels + 1)}
    /\ CacheInit
    /\ rep = RepIdle /\ seg = SegIdle /\ drm = DrmIdle /\ mpd = MpdIdle /\ LateIdle

\* InitHandler, SegmentHandler: the stream index lookup and its error answer
LookupStreamIndex ==
    /\ req.pc = "manifest"
    /\ LET i == GetStreamIndexByNameOrType(req.streams, req.streamIndexStr) IN
       req' = IF i = 0
                 THEN [req EXCEPT !.pc = "answered", !.status = 500]
                 ELSE [req EXCEPT !.pc = "stream", !.streamIndex = i]
    /\ UNCHANGED <<cacheVars, rep, seg, drm, mpd, lateVars>>

\* InitHandler, SegmentHandler: the quality level lookup and its error answer
LookupQualityLevel ==
    /\ req.pc = "stream"
    /\ req' = IF GetQualityLevelByIndex(req.streams[req.streamIndex], req.qualityLevelIndex)
                 THEN [req EXCEPT !.pc = "quality"]
                 ELSE [req EXCEPT !.pc = "answered", !.status = 500]
    /\ UNCHANGED <<cacheVars, rep, seg, drm, mpd, lateVars>>

\* the switch on streamIndex.Type: 400 for an unsupported type, else the
\* init segment is generated, which may fail; InitHandler answers with it
GenerateInit ==
    /\ req.pc = "quality"
    /\ \E ok \in BOOLEAN :
          req' = IF req.streams[req.streamIndex].type = "other"
                    THEN [req EXCEPT !.pc = "answered", !.status = 400]
                    ELSE IF ~ok
                    THEN [req EXCEPT !.pc = "answered", !.status = 500, !.generated = TRUE]
                    ELSE IF req.handler = "init"
                    THEN [req EXCEPT !.pc = "answered", !.status = 200, !.generated = TRUE]
                    ELSE [req EXCEPT !.pc = "chunk", !.generated = TRUE]
    /\ UNCHANGED <<cacheVars, rep, seg, drm, mpd, lateVars>>

\* SegmentHandler: the chunk fetch, the repackaging and the answer
FetchChunk ==
    /\ req.pc = "chunk"
    /\ \E ok \in BOOLEAN :
          req' = [req EXCEPT !.pc = "answered", !.fetched = TRUE,
                             !.status = IF ok THEN 200 ELSE 500]
    /\ UNCHANGED <<cacheVars, rep, seg, drm, mpd, lateVars>>

ReqNext == LookupStreamIndex \/ LookupQualityLevel \/ GenerateInit \/ FetchChunk

ReqSpec == ReqInit /\ [][ReqNext]_vars

\* the rep id names no stream index of the manifest, or a quality index the
\* named stream index does not have
UnknownStream ==
    \A i \in 1..Len(req.streams) :
        /\ req.streams[i].name # req.streamIndexStr
        /\ req.streams[i].type # req.streamIndexStr

UnknownQuality ==
    /\ ~UnknownStream
    /\ req.streamIndex # 0
    /\ req.qualityLevelIndex >= req.streams[req.streamIndex].levels

\* C19: a request for an unknown stream or an unknown quality index is
\* answered 400, without init generation and without a chunk fetch
C19_LookupError400 ==
    (req.pc = "answered" /\ (UnknownStream \/ UnknownQuality)) =>
        req.status = 400 /\ ~req.generated /\ ~req.fetched

\* --------------------------------------------------- codec private data
MaxPieces     == 5    \* start codes and other bytes of an AVC CodecPrivateData
MaxDec3Len    == 24   \* bytes of an EC-3 CodecPrivateData
MaxTailNibble == 1    \* hex digits after the last whole byte of a CodecPrivateData

HexDigits == <<"0", "1", "2", "3", "4", "5", "6", "7", "8", "9", "a", "b", "c", "d", "e", "f">>
HexUpper == <<"A", "B", "C", "D", "E", "F">>

\* hex.EncodeToString
EncodeToString(b) ==
    [i \in 1..(2 * Len(b)) |->
        IF i % 2 = 1 THEN HexDigits[(b[(i + 1) \div 2] \div 16) + 1]
                     ELSE HexDigits[(b[i \div 2] % 16) + 1]]

\* encoding/hex fromHexChar: the value of a digit, -1 for any other character
FromHexChar(c) ==
    IF \E k \in 1..16 : HexDigits[k] = c THEN (CHOOSE k \in 1..16 : HexDigits[k] = c) - 1
    ELSE IF \E k \in 1..6 : HexUpper[k] = c THEN (CHOOSE k \in 1..6 : HexUpper[k] = c) + 9
    ELSE -1

\* the byte of a character of the hex string, as []byte(s) holds it
Ascii(c) ==
    LET v == FromHexChar(c) IN
    IF v = -1 THEN 120
    ELSE IF v < 10 THEN 48 + v
    ELSE IF \E k \in 1..6 : HexUpper[k] = c THEN 55 + v ELSE 87 + v

\* hex.DecodeString: src is []byte(s), decoded in place and cut to the number
\* of decoded bytes; buf is the whole backing array, of capacity cap
DecodeString(s, cap) ==
    LET n == Len(s) \div 2
        bad == \E i \in 1..Len(s) : FromHexChar(s[i]) = -1
        byte(i) == 16 * FromHexChar(s[2 * i - 1]) + FromHexChar(s[2 * i])
    IN  [err |-> bad \/ Len(s) % 2 = 1,
         bytes |-> IF bad THEN <<>> ELSE [i \in 1..n |-> byte(i)],
         buf |-> IF bad THEN <<>>
                 ELSE [i \in 1..cap |-> IF i <= n THEN byte(i)
                                        ELSE IF i <= Len(s) THEN Ascii(s[i]) ELSE 0]]

\* the capacities the slice DecodeString returns for a string of n characters
\* can have: the decoded length when the bytes get a slice of their own, and
\* n or n rounded up to the allocator's size class when []byte(s) is reused
Capacities(n) ==
    {n \div 2, n}
    \cup {c \in {8, 16, 24, 32, 48, 64} :
             c >= n /\ \A d \in {8, 16, 24, 32, 48, 64} : d >= n => c <= d}

\* bytes.Index(data, sep): the first place of sep in data, 0 if there is none
Index(data, sep) ==
    LET at == {i \in 1..(Len(data) - Len(sep) + 1) :
                  SubSeq(data, i, i + Len(sep) - 1) = sep}
    IN  IF at = {} THEN 0 ELSE CHOOSE i \in at : \A j \in at : i <= j

\* bytes.SplitN(data, sep, n) for n > 0 and a sep that is not empty
RECURSIVE SplitN(_, _, _)
SplitN(data, sep, n) ==
    LET i == Index(data, sep) IN
    IF n = 1 \/ i = 0 THEN <<data>>
    ELSE <<SubSeq(data, 1, i - 1)>>
         \o SplitN(SubSeq(data, i + Len(sep), Len(data)), sep, n - 1)

\* the Annex-B start code
Delimiter == <<0, 0, 0, 1>>

\* the SPS taken from the piece ahead of the first start code
SpsFirstPiece(split) == split[1]

\* spsNALUs = [][]byte{split[1]}
Sps(split) == split[2]

\* CodecPrivateDataToSPSPPS(codecPrivateDataHex)
CodecPrivateDataToSPSPPS(codecPrivateDataHex) ==
    LET d == DecodeString(codecPrivateDataHex, Len(codecPrivateDataHex))
        split == SplitN(d.bytes, Delimiter, 3)
    IN  IF d.err \/ Len(split) < 3
           THEN [err |-> TRUE, sps |-> <<>>, pps |-> <<>>]
           ELSE [err |-> FALSE, sps |-> Sps(split), pps |-> split[3]]

DDP_WAVEFORMAT_GUID ==
    <<175, 135, 251, 167, 2, 45, 251, 66, 164, 212, 5, 205, 147, 132, 59, 221>>

\* info[6+len(DDP_WAVEFORMAT_GUID):]
Payload(info) == SubSeq(info, 23, Len(info))

\* extractDolbyDigitalPlusInfo(info), info being the first len bytes of buf:
\* info[6:22] panics when 22 exceeds the capacity and otherwise reads buf
ExtractDolbyDigitalPlusInfo(buf, len) ==
    IF 22 > Len(buf)
       THEN [panic |-> TRUE, err |-> FALSE, payload |-> <<>>]
    ELSE IF SubSeq(buf, 7, 22) # DDP_WAVEFORMAT_GUID
       THEN [panic |-> FALSE, err |-> TRUE, payload |-> <<>>]
    ELSE [panic |-> FALSE, err |-> FALSE, payload |-> Payload(SubSeq(buf, 1, len))]

\* CodecPrivateDataToDec3Box(codecPrivateDataHex) up to the call of
\* mp4.DecodeDec3
CodecPrivateDataToDec3Box(codecPrivateDataHex, cap) ==
    LET d == DecodeString(codecPrivateDataHex, cap) IN
    IF d.err \/ Len(d.bytes) < 2
       THEN [panic |-> FALSE, err |-> TRUE, payload |-> <<>>]
       ELSE ExtractDolbyDigitalPlusInfo(d.buf, Len(d.bytes))

\* an EC-3 blob: WAVEFORMATEXTENSIBLE with the GUID at offset 6, its byte
\* wrong (1..16) changed, cut to n bytes
Dec3Blob(n, wrong) ==
    LET whole == <<0, 6, 63, 0, 0, 0>>
                 \o [k \in 1..16 |-> IF k = wrong THEN (DDP_WAVEFORMAT_GUID[k] + 1) % 256
                                                  ELSE DDP_WAVEFORMAT_GUID[k]]
                 \o [k \in 1..(MaxDec3Len - 22) |-> IF k = 1 THEN 7 ELSE 32 * (k % 2)]
    IN  SubSeq(whole, 1, n)

\* the tails that make a CodecPrivateData no hex string
BadTails ==
    {<<>>, <<"x", "0">>} \cup {[i \in 1..n |-> "0"] : n \in 1..MaxTailNibble}

\* a quality level's CodecPrivateData handed to the AVC or the EC-3 parser
CpdInit ==
    /\ fn \in {[pc |-> "avc", hex |-> EncodeToString(b) \o t, out |-> <<>>] :
                  b \in {Flatten(ps) :
                            ps \in UNION {[1..n -> {Delimiter, <<0>>, <<1>>, <<103>>}] :
                                             n \in 0..MaxPieces}},
                  t \in BadTails}
          \cup {[pc |-> "ec3", hex |-> EncodeToString(Dec3Blob(n, w)) \o t, out |-> <<>>] :
                  n \in 0..MaxDec3Len, w \in 0..16, t \in BadTails}
    /\ CacheInit /\ EarlyIdle /\ srv = SrvIdle /\ cfg = CfgIdle

\* AVCInitSegment.Generate: CodecPrivateDataToSPSPPS
SplitPrivateData ==
    /\ fn.pc = "avc"
    /\ fn' = [fn EXCEPT !.pc = "avc-done", !.out = CodecPrivateDataToSPSPPS(fn.hex)]
    /\ UNCHANGED <<cacheVars, earlyVars, srv, cfg>>

\* De3InitSegment.Generate: CodecPrivateDataToDec3Box
ExtractPrivateData ==
    /\ fn.pc = "ec3"
    /\ \E cap \in Capacities(Len(fn.hex)) :
          fn' = [fn EXCEPT !.pc = "ec3-done", !.out = CodecPrivateDataToDec3Box(fn.hex, cap)]
    /\ UNCHANGED <<cacheVars, earlyVars, srv, cfg>>

CpdNext == SplitPrivateData \/ ExtractPrivateData

CpdSpec == CpdInit /\ [][CpdNext]_vars

\* the blob a hex string stands for, if it is one
IsHex(s) == Len(s) % 2 = 0 /\ \A i \in 1..Len(s) : FromHexChar(s[i]) # -1
BlobOf(s) == [i \in 1..(Len(s) \div 2) |-> 16 * FromHexChar(s[2 * i - 1]) + FromHexChar(s[2 * i])]
StartCodes(b) == {i \in 1..(Len(b) - 3) : SubSeq(b, i, i + 3) = Delimiter}

\* C21: a hex blob with two start codes or more gives the bytes between the
\* first two as SPS and all bytes after the second as PPS; anything else
\* gives an error
C21_SpsPpsSplit ==
    fn.pc = "avc-done" =>
        IF IsHex(fn.hex) /\ Cardinality(StartCodes(BlobOf(fn.hex))) >= 2
           THEN LET b == BlobOf(fn.hex)
                    first == CHOOSE i \in StartCodes(b) : \A j \in StartCodes(b) : i <= j
                    rest == StartCodes(b) \ {first}
                    second == CHOOSE i \in rest : \A j \in rest : i <= j
                IN  /\ ~fn.out.err
                    /\ fn.out.sps = SubSeq(b, first + 4, second - 1)
                    /\ fn.out.pps = SubSeq(b, second + 4, Len(b))
           ELSE fn.out.err

\* a blob with bytes ahead of the first start code was split into an SPS and
\* a PPS of one byte each
C21_Witness ==
    /\ fn.pc = "avc-done" /\ ~fn.out.err
    /\ BlobOf(fn.hex)[1] = 103
    /\ fn.out.sps = <<103>> /\ fn.out.pps = <<1>>

\* C22: a blob with the GUID at offset 6 gives the bytes from offset 22 on;
\* any other blob gives an error value
C22_Dec3Payload ==
    fn.pc = "ec3-done" =>
        /\ ~fn.out.panic
        /\ IF /\ IsHex(fn.hex) /\ Len(BlobOf(fn.hex)) >= 22
              /\ SubSeq(BlobOf(fn.hex), 7, 22) = DDP_WAVEFORMAT_GUID
              THEN ~fn.out.err /\ fn.out.payload = SubSeq(BlobOf(fn.hex), 23, Len(BlobOf(fn.hex)))
              ELSE fn.out.err

\* ------------------------------------------------------------ TTML rebase
MaxTimeScale  == 2    \* ticks per second of a presentation or a stream index
MaxChunkTime  == 3    \* start time of the requested chunk, in ticks
MaxParagraphs == 2    \* <p> elements of a subtitle fragment

\* a clock value hh:mm:ss.mmm is <<hh, mm, ss, mmm>>; values of begin and end
Clocks == {<<0, 0, 1, 0>>, <<0, 59, 59, 500>>}

\* what formatTTMLTime prints for a value that is no number of seconds
NoClock == <<-1, -1, -1, -1>>

\* parseTTMLTime, in milliseconds
ParseTTMLTime(value) ==
    value[1] * 3600000 + value[2] * 60000 + value[3] * 1000 + value[4]

\* formatTTMLTime, from milliseconds
FormatTTMLTime(ms) ==
    LET seconds == ms \div 1000
        h == seconds \div 3600
        m == (seconds % 3600) \div 60
    IN  <<h, m, (ms - (h * 3600 + m * 60) * 1000) \div 1000, ms % 1000>>

\* segmentStartTime := float64(chunkId) / float64(timeScale), in
\* milliseconds; -1 for the division by zero
SegmentStartTime(chunkId, timeScale) ==
    IF timeScale = 0 THEN -1 ELSE (chunkId * 1000) \div timeScale

\* UpdateTTMLToAbsoluteTimestamps on the <p> elements of the mdat
UpdateTTMLToAbsoluteTimestamps(ps, segmentStart) ==
    LET Abs(value) == IF segmentStart = -1 THEN NoClock
                      ELSE FormatTTMLTime(ParseTTMLTime(value) + segmentStart)
    IN  [i \in 1..Len(ps) |-> [begin |-> Abs(ps[i].begin), end |-> Abs(ps[i].end)]]

\* SegmentHandler: uint32(streamIndex.TimeScale)
PassedTimeScale(presentation, streamIndex) == streamIndex

\* a subtitle chunk request: the TimeScale of the presentation, that of the
\* StreamIndex (0 when it declares none), the chunk's time and its <p> elements
TtmlInit ==
    /\ fn \in {[pc |-> "ttml", timeScale |-> ts, streamTimeScale |-> sts, time |-> t,
                in |-> ps, out |-> <<>>] :
                  ts \in 1..MaxTimeScale, sts \in 0..MaxTimeScale, t \in 0..MaxChunkTime,
                  ps \in UNION {[1..n -> [begin : Clocks, end : Clocks]] :
                                  n \in 0..MaxParagraphs}}
    /\ CacheInit /\ EarlyIdle /\ srv = SrvIdle /\ cfg = CfgIdle

\* SegmentHandler, case "text": ProcessSubtitleSegment rewrites the mdat
RebaseSubtitle ==
    /\ fn.pc = "ttml"
    /\ LET timeScale == PassedTimeScale(fn.timeScale, fn.streamTimeScale) IN
       fn' = [fn EXCEPT !.pc = "ttml-done",
                        !.out = UpdateTTMLToAbsoluteTimestamps(
                                    fn.in, SegmentStartTime(fn.time, timeScale))]
    /\ UNCHANGED <<cacheVars, earlyVars, srv, cfg>>

TtmlNext == RebaseSubtitle

TtmlSpec == TtmlInit /\ [][TtmlNext]_vars

\* C23: begin and end of every <p> are the original values plus
\* time / timescale seconds, timescale being the TimeScale of the presentation
C23_TtmlRebase ==
    fn.pc = "ttml-done" =>
        /\ Len(fn.out) = Len(fn.in)
        /\ \A i \in 1..Len(fn.in) :
              LET shift == (fn.time * 1000) \div fn.timeScale IN
              /\ fn.out[i].begin # NoClock /\ fn.out[i].end # NoClock
              /\ ParseTTMLTime(fn.out[i].begin) = ParseTTMLTime(fn.in[i].begin) + shift
              /\ ParseTTMLTime(fn.out[i].end) = ParseTTMLTime(fn.in[i].end) + shift

\* -------------------------------------------------------- decrypt ordering
MaxSegments  == 2    \* segments of a chunk
MaxFragments == 2    \* fragments of a segment

\* DecryptSegment called for every segment
DecryptAlways(key) == TRUE

\* if key != nil
DecryptWanted(key) == key

\* the fragments of a segment as mp4.DecodeFile returns them
Fragments ==
    UNION {[1..n -> {[trackID |-> id, dataOffset |-> 0, mdat |-> "origin",
                      children |-> <<Box("tfhd"), Box("trun")>>, panic |-> FALSE] :
                        id \in 1..MaxTrackID}] : n \in 1..MaxFragments}

\* a fetched video or audio chunk, the key of the channel (nil or not) and
\* the walk of ProcessVideoSegment / ProcessAudioSegment over it: segment s,
\* fragment f
DecInit ==
    /\ seg \in {[pc |-> "walk", type |-> t, key |-> k, time |-> 0, file |-> file,
                 s |-> 1, f |-> 1, decrypted |-> [i \in 1..Len(file) |-> FALSE],
                 err |-> FALSE] :
                   t \in {"video", "audio"}, k \in BOOLEAN,
                   file \in UNION {[1..n -> Fragments] : n \in 0..MaxSegments}}
    /\ CacheInit
    /\ rep = RepIdle /\ drm = DrmIdle /\ mpd = MpdIdle /\ req = ReqIdle /\ LateIdle

\* one turn of the loop over seg.Fragments
RewriteFragment ==
    /\ seg.pc = "walk" /\ seg.s <= Len(seg.file) /\ seg.f <= Len(seg.file[seg.s])
    /\ LET frag == seg.file[seg.s][seg.f] IN
       seg' = [seg EXCEPT !.f = @ + 1,
                          !.file[seg.s][seg.f] =
                              IF seg.type = "video" THEN ProcessVideoFragment(frag, seg.time)
                                                    ELSE ProcessAudioFragment(frag, seg.time)]
    /\ UNCHANGED <<cacheVars, rep, drm, mpd, req, lateVars>>

\* after the fragments of a segment: mp4.DecryptSegment(seg, decryptInfo, key)
\* if key != nil; it decrypts the mdat of every fragment or fails
DecryptSegment ==
    /\ seg.pc = "walk" /\ seg.s <= Len(seg.file) /\ seg.f > Len(seg.file[seg.s])
    /\ DecryptWanted(seg.key)
    /\ \E ok \in BOOLEAN :
          seg' = IF ok
                    THEN [seg EXCEPT !.s = @ + 1, !.f = 1, !.decrypted[seg.s] = TRUE,
                                     !.file[seg.s] =
                                         [i \in 1..Len(seg.file[seg.s]) |->
                                             [seg.file[seg.s][i] EXCEPT !.mdat = "clear"]]]
                    ELSE [seg EXCEPT !.pc = "returned", !.err = TRUE]
    /\ UNCHANGED <<cacheVars, rep, drm, mpd, req, lateVars>>

\* after the fragments of a segment when key is nil: on to the next segment
NextSegment ==
    /\ seg.pc = "walk" /\ seg.s <= Len(seg.file) /\ seg.f > Len(seg.file[seg.s])
    /\ ~DecryptWanted(seg.key)
    /\ seg' = [seg EXCEPT !.s = @ + 1, !.f = 1]
    /\ UNCHANGED <<cacheVars, rep, drm, mpd, req, lateVars>>

\* inMp4.Encode(output) and the return
EncodeSegment ==
    /\ seg.pc = "walk" /\ seg.s > Len(seg.file)
    /\ seg' = [seg EXCEPT !.pc = "returned"]
    /\ UNCHANGED <<cacheVars, rep, drm, mpd, req, lateVars>>

DecNext == RewriteFragment \/ DecryptSegment \/ NextSegment \/ EncodeSegment

DecSpec == DecInit /\ [][DecNext]_vars

\* a step that decrypts segment i
Decrypts(i) == ~seg.decrypted[i] /\ seg'.decrypted[i]

\* the fragments of segment i have all been through the loop body
Rewritten(i) ==
    (seg.s > i \/ (seg.s = i /\ seg.f > Len(seg.file[i])))
    /\ \A j \in 1..Len(seg.file[i]) : seg.file[i][j].trackID = 1

\* C25: a segment is decrypted only with a key and only once all of its
\* fragments have track id 1; without a key nothing is decrypted and every
\* mdat stays as the origin sent it
C25_DecryptOrdering ==
    [][seg.pc = "walk" =>
          /\ \A i \in 1..Len(seg.file) : Decrypts(i) => seg.key /\ Rewritten(i)
          /\ ~seg.key =>
                \A i \in 1..Len(seg'.file) :
                    /\ ~seg'.decrypted[i]
                    /\ \A j \in 1..Len(seg'.file[i]) : seg'.file[i][j].mdat = "origin"]_vars

\* a chunk of two segments, the first of two fragments, was decrypted segment
\* by segment and returned
C25_Witness ==
    /\ seg.pc = "returned" /\ ~seg.err /\ seg.key
    /\ Len(seg.file) = 2 /\ Len(seg.file[1]) = 2
    /\ seg.decrypted = <<TRUE, TRUE>>
    /\ \A j \in 1..2 : seg.file[1][j].trackID = 1 /\ seg.file[1][j].mdat = "clear"

\* ------------------------------------------------- shutdown and the logger
MaxClients == 2    \* requests that arrive while the server runs
LogChanCap == 2    \* capacity of logChan (1000 in InitLogger)

Clients == 1..MaxClients

\* Start after InitLogger and the ListenAndServe goroutines: the server
\* accepts requests, the log worker waits in its select
SrvInit ==
    /\ srv = [pc |-> "serving", accepting |-> TRUE, ctxDone |-> FALSE,
              logChan |-> <<>>, closed |-> FALSE, worker |-> "running",
              reqs |-> [c \in Clients |-> "none"],
              enqueued |-> {}, written |-> {}, dropped |-> {}, panic |-> FALSE]
    /\ CacheInit /\ EarlyIdle /\ fn = FnIdle /\ cfg = CfgIdle

\* no step is taken by a process that has exited or panicked
Alive == srv.pc # "off" /\ srv.pc # "exited" /\ ~srv.panic

\* the listener accepts a connection and its request
Accept(c) ==
    /\ Alive /\ srv.accepting /\ srv.reqs[c] = "none"
    /\ srv' = [srv EXCEPT !.reqs[c] = "accepted"]
    /\ UNCHANGED <<cacheVars, earlyVars, fn, cfg>>

\* LogRequestMiddleware: select { case logChan <- logLine: default: }; a send
\* on a closed channel panics
LogRequest(c) ==
    /\ Alive /\ srv.reqs[c] = "accepted"
    /\ srv' = IF srv.closed THEN [srv EXCEPT !.panic = TRUE]
              ELSE IF Len(srv.logChan) < LogChanCap
                 THEN [srv EXCEPT !.logChan = Append(@, c), !.enqueued = @ \cup {c},
                                  !.reqs[c] = "handling"]
                 ELSE [srv EXCEPT !.dropped = @ \cup {c}, !.reqs[c] = "handling"]
    /\ UNCHANGED <<cacheVars, earlyVars, fn, cfg>>

\* next.ServeHTTP(w, r) returns
Respond(c) ==
    /\ Alive /\ srv.reqs[c] = "handling"
    /\ srv' = [srv EXCEPT !.reqs[c] = "done"]
    /\ UNCHANGED <<cacheVars, earlyVars, fn, cfg>>

\* log worker, case line, ok := <-logChan with ok: writeLog(line)
WorkerWrite ==
    /\ Alive /\ srv.worker = "running" /\ srv.logChan # <<>>
    /\ srv' = [srv EXCEPT !.logChan = Tail(@), !.written = @ \cup {Head(srv.logChan)}]
    /\ UNCHANGED <<cacheVars, earlyVars, fn, cfg>>

\* log worker, case line, ok := <-logChan with !ok: the channel is closed and
\* empty; flushAndClose and return
WorkerDrained ==
    /\ Alive /\ srv.worker = "running" /\ srv.closed /\ srv.logChan = <<>>
    /\ srv' = [srv EXCEPT !.worker = "done"]
    /\ UNCHANGED <<cacheVars, earlyVars, fn, cfg>>

\* log worker, case <-ctx.Done(): flushAndClose and return
WorkerCancelled ==
    /\ Alive /\ srv.worker = "running" /\ srv.ctxDone
    /\ srv' = [srv EXCEPT !.worker = "done"]
    /\ UNCHANGED <<cacheVars, earlyVars, fn, cfg>>

\* SIGINT or SIGTERM: signal.NotifyContext cancels ctx
Signal ==
    /\ Alive /\ srv.pc = "serving"
    /\ srv' = [srv EXCEPT !.pc = "signalled", !.ctxDone = TRUE]
    /\ UNCHANGED <<cacheVars, earlyVars, fn, cfg>>

\* Start: <-ctx.Done() returned; srv.Shutdown closes the listeners
StopAccepting ==
    /\ Alive /\ srv.pc = "signalled"
    /\ srv' = [srv EXCEPT !.pc = "draining", !.accepting = FALSE]
    /\ UNCHANGED <<cacheVars, earlyVars, fn, cfg>>

\* srv.Shutdown returns nil: every connection has become idle
Drained ==
    /\ Alive /\ srv.pc = "draining"
    /\ \A c \in Clients : srv.reqs[c] \in {"none", "done"}
    /\ srv' = [srv EXCEPT !.pc = "stopped"]
    /\ UNCHANGED <<cacheVars, earlyVars, fn, cfg>>

\* srv.Shutdown returns the error of ctxShutdown: 10 seconds have passed with
\* a connection still busy
GraceExpired ==
    /\ Alive /\ srv.pc = "draining"
    /\ \E c \in Clients : srv.reqs[c] \in {"accepted", "handling"}
    /\ srv' = [srv EXCEPT !.pc = "stopped"]
    /\ UNCHANGED <<cacheVars, earlyVars, fn, cfg>>

\* the deferred ShutdownLogger: close(logChan)
CloseLogChan ==
    /\ Alive /\ srv.pc = "stopped"
    /\ srv' = [srv EXCEPT !.pc = "closing", !.closed = TRUE]
    /\ UNCHANGED <<cacheVars, earlyVars, fn, cfg>>

\* ShutdownLogger: <-logWorkerDone; Start returns and the process exits
Exit ==
    /\ Alive /\ srv.pc = "closing" /\ srv.worker = "done"
    /\ srv' = [srv EXCEPT !.pc = "exited"]
    /\ UNCHANGED <<cacheVars, earlyVars, fn, cfg>>

SrvNext ==
    \/ \E c \in Clients : Accept(c) \/ LogRequest(c) \/ Respond(c)
    \/ WorkerWrite \/ WorkerDrained \/ WorkerCancelled
    \/ Signal \/ StopAccepting \/ Drained \/ GraceExpired \/ CloseLogChan \/ Exit

SrvSpec == SrvInit /\ [][SrvNext]_vars

\* C26: after the signal no request is accepted once shutdown has begun, the
\* process exits only with every enqueued log line written, and no request
\* sends on the closed log channel
C26_LogFlush ==
    /\ srv.pc = "exited" => srv.enqueued \subseteq srv.written
    /\ srv.pc # "off" => ~srv.panic

\* ----------------------------------------------------------- config reload
MaxWrites == 3    \* changes made to the config file
MaxChains == 2    \* debounce timers that have fired and not yet returned
Retries   == 3    \* retryReloadConfig(3, 100*time.Millisecond)

\* content of the config file: 0 no file, -1 no JSON, -2 JSON that does not
\* pass validateConfig, k > 0 the k-th valid configuration
Loadable(content) == content > 0

ChainIdle == [pc |-> "idle", i |-> 0, tries |-> 0, newConfig |-> 0]

\* after LoadConfig and WatchConfig: the first configuration is active
CfgInit ==
    /\ cfg = [pc |-> "watching", file |-> 1, appConfig |-> 1, validated |-> 1, versions |-> 1,
              timer |-> FALSE, writes |-> 0,
              chains |-> [c \in 1..MaxChains |-> ChainIdle]]
    /\ CacheInit /\ EarlyIdle /\ fn = FnIdle /\ srv = SrvIdle

\* the file is written: a new valid configuration, or broken or invalid
\* content; the Write event arms the debounce timer anew
WriteConfigFile ==
    /\ cfg.pc # "off" /\ cfg.writes < MaxWrites
    /\ \E content \in {-1, -2, cfg.versions + 1} :
          cfg' = [cfg EXCEPT !.file = content, !.writes = @ + 1, !.timer = TRUE,
                             !.versions = IF content > 0 THEN content ELSE @]
    /\ UNCHANGED <<cacheVars, earlyVars, fn, srv>>

\* the file is removed: no Write or Create event, no timer
RemoveConfigFile ==
    /\ cfg.pc # "off" /\ cfg.writes < MaxWrites /\ cfg.file # 0
    /\ cfg' = [cfg EXCEPT !.file = 0, !.writes = @ + 1]
    /\ UNCHANGED <<cacheVars, earlyVars, fn, srv>>

\* 200ms after the last event time.AfterFunc runs retryReloadConfig in a
\* goroutine of its own
TimerFires(c) ==
    /\ cfg.pc # "off" /\ cfg.timer /\ cfg.chains[c].pc \in {"idle", "done"}
    /\ cfg' = [cfg EXCEPT !.timer = FALSE,
                          !.chains[c] = [ChainIdle EXCEPT !.pc = "attempt"]]
    /\ UNCHANGED <<cacheVars, earlyVars, fn, srv>>

\* reloadConfig up to configMutex.Lock(): open, decode, validateConfig; on an
\* error retryReloadConfig sleeps and tries again, or gives up after the last try
ReadConfig(c) ==
    /\ cfg.pc # "off" /\ cfg.chains[c].pc = "attempt"
    /\ LET ch == cfg.chains[c] IN
       cfg' = IF Loadable(cfg.file)
                 THEN [cfg EXCEPT !.validated = cfg.file,
                                  !.chains[c] = [ch EXCEPT !.pc = "validated", !.tries = @ + 1,
                                                           !.newConfig = cfg.file]]
                 ELSE [cfg EXCEPT !.chains[c] =
                          [ch EXCEPT !.tries = @ + 1, !.i = @ + 1,
                                     !.pc = IF ch.i = Retries - 1 THEN "done" ELSE "attempt"]]
    /\ UNCHANGED <<cacheVars, earlyVars, fn, srv>>

\* reloadConfig under configMutex: appConfig = newConfig; retryReloadConfig
\* returns
SwapConfig(c) ==
    /\ cfg.pc # "off" /\ cfg.chains[c].pc = "validated"
    /\ cfg' = [cfg EXCEPT !.appConfig = cfg.chains[c].newConfig, !.chains[c].pc = "done"]
    /\ UNCHANGED <<cacheVars, earlyVars, fn, srv>>

CfgNext ==
    \/ WriteConfigFile \/ RemoveConfigFile
    \/ \E c \in 1..MaxChains : TimerFires(c) \/ ReadConfig(c) \/ SwapConfig(c)

CfgSpec == CfgInit /\ [][CfgNext]_vars

\* no reload is between validateConfig and the assignment
Settled == \A c \in 1..MaxChains : cfg.chains[c].pc # "validated"

\* C27: a timer's reload makes at most 3 attempts, and the active
\* configuration is the one that passed validateConfig most recently
C27_ReloadSafety ==
    cfg.pc # "off" =>
        /\ \A c \in 1..MaxChains : cfg.chains[c].tries <= 3
        /\ Settled => cfg.appConfig = cfg.validated

\* ------------------------------------------------------ rep-id resolution
\* streamIndexName of SmoothToDashManifest: the Name of the stream index, its Type when it has none
RepresentationName(streamIndex) ==
    IF streamIndex.name # "" THEN streamIndex.name ELSE streamIndex.type

\* the Representation ids of the MPD, fmt.Sprintf("%s_%d", streamIndexName,
\* qualityLevel.Index), each with the stream index and quality level it was
\* made from
RepresentationIDs(streams) ==
    Flatten([i \in 1..Len(streams) |->
                [q \in 1..streams[i].levels |->
                    [name |-> RepresentationName(streams[i]), index |-> q - 1,
                     streamIndex |-> i, qualityLevel |-> q - 1]]])

\* a fetched manifest, about to be converted
ResolveInit ==
    /\ fn \in {[pc |-> "manifest", streams |-> ss, ids |-> <<>>, resolved |-> <<>>] :
                  ss \in ReqStreams}
    /\ CacheInit /\ EarlyIdle /\ srv = SrvIdle /\ cfg = CfgIdle

\* SmoothToDashManifest publishes the Representation ids
PublishIDs ==
    /\ fn.pc = "manifest"
    /\ fn' = [fn EXCEPT !.pc = "published", !.ids = RepresentationIDs(fn.streams)]
    /\ UNCHANGED <<cacheVars, earlyVars, srv, cfg>>

\* a client requests the next published id; the handler splits it and looks
\* up the stream index and the quality level
ResolveID ==
    /\ fn.pc = "published" /\ Len(fn.resolved) < Len(fn.ids)
    /\ LET id == fn.ids[Len(fn.resolved) + 1]
           i == GetStreamIndexByNameOrType(fn.streams, id.name)
           found == i # 0 /\ GetQualityLevelByIndex(fn.streams[i], id.index)
       IN  fn' = [fn EXCEPT !.resolved =
                     Append(@, [found |-> found, streamIndex |-> i,
                                qualityLevel |-> IF found THEN id.index ELSE -1])]
    /\ UNCHANGED <<cacheVars, earlyVars, srv, cfg>>

ResolveNext == PublishIDs \/ ResolveID

ResolveSpec == ResolveInit /\ [][ResolveNext]_vars

\* C28: every published id resolves to the stream index and quality level it
\* was generated from, and no two published ids resolve to the same track
C28_RepIdResolution ==
    fn.pc = "published" =>
        /\ \A k \in 1..Len(fn.resolved) :
              /\ fn.resolved[k].found
              /\ fn.resolved[k].streamIndex = fn.ids[k].streamIndex
              /\ fn.resolved[k].qualityLevel = fn.ids[k].qualityLevel
        /\ \A k, l \in 1..Len(fn.resolved) :
              k # l => <<fn.resolved[k].streamIndex, fn.resolved[k].qualityLevel>>
                       # <<fn.resolved[l].streamIndex, fn.resolved[l].qualityLevel>>

\* ---------------------------------------------------------- DRM mode
\* InitHandler's loop over smoothStream.Protection: every PlayReady header
\* assigns pssh and keyId, the loop does not stop at the first one
RECURSIVE InitKeyLoop(_, _)
InitKeyLoop(protections, found) ==
    IF protections = <<>> THEN found
    ELSE LET h == Head(protections) IN
         IF ~h.playReady THEN InitKeyLoop(Tail(protections), found)
         ELSE IF ~h.dataOk THEN DrmFailed("Error decoding PSSH")
         ELSE LET r == ExtractPRKeyIdFromPssh(h.pssh) IN
              IF r.err THEN DrmFailed("Error extracting key ID")
              ELSE InitKeyLoop(Tail(protections),
                               [found EXCEPT !.keyId = r.kid, !.pssh = h.pssh])

\* InitHandler from "if smoothStream.Protection != nil" to the end of that
\* block; the empty sequence stands for a nil Protection
InitKeyInfo(protections, keys) ==
    IF protections = <<>> THEN DrmFailed("")
    ELSE LET found == InitKeyLoop(protections, DrmFailed("")) IN
         IF found.err # "" THEN found
         ELSE IF found.keyId = Nil THEN DrmFailed("No PlayReady key ID found")
         ELSE LET r == GetKey(keys, found.keyId) IN
              IF r.err = "key not found" /\ ~keys.isNil
                 THEN DrmFailed("Error fetching key")
              ELSE IF Len(r.key) = 0 /\ ~keys.isNil THEN DrmFailed("Key not found")
              ELSE [found EXCEPT !.key = r.key]

\* SegmentHandler from "if smoothStream.Protection != nil" to the end of
\* that block
SegmentKeyInfo(protections, keys) ==
    IF protections = <<>> THEN DrmFailed("")
    ELSE LET found == ExtractKeyInfoKid(protections) IN
         IF found.err # "" THEN found ELSE ExtractKeyInfoKey(found, keys)

\* the decision a handler took: no key id, a key id without a key, a key id
\* with a key, or an error response
DrmMode(out) ==
    IF out.err # "" THEN "Failed"
    ELSE IF out.keyId = Nil THEN "Unprotected"
    ELSE IF out.key = Nil THEN "Passthrough"
    ELSE "Decrypt"

\* a PlayReady header whose KID is KidBytes(0, step, 16)
KidHeader(step) ==
    [playReady |-> TRUE, dataOk |-> TRUE,
     pssh |-> [match |-> TRUE, b64ok |-> TRUE, keyBytes |-> KidBytes(0, step, 16)]]

\* the manifests of the requests: no protection, the protections of above,
\* or two PlayReady headers with different KIDs
ModeProtections ==
    {<<>>} \cup Protections \cup {<<KidHeader(1), KidHeader(0)>>, <<KidHeader(0), KidHeader(1)>>}

\* the init request and a segment request of one representation
ModeInit ==
    /\ drm \in {[pc |-> "start", protections |-> p, keys |-> k,
                 init |-> DrmFailed(""), segment |-> DrmFailed("")] :
                   p \in ModeProtections, k \in ChannelKeys}
    /\ CacheInit
    /\ rep = RepIdle /\ seg = SegIdle /\ mpd = MpdIdle /\ req = ReqIdle /\ LateIdle

\* InitHandler decides the keys of the init segment
InitRequest ==
    /\ drm.pc = "start"
    /\ drm' = [drm EXCEPT !.pc = "init", !.init = InitKeyInfo(drm.protections, drm.keys)]
    /\ UNCHANGED <<cacheVars, rep, seg, mpd, req, lateVars>>

\* SegmentHandler decides the keys of a segment
SegmentRequest ==
    /\ drm.pc = "init"
    /\ drm' = [drm EXCEPT !.pc = "segment",
                          !.segment = SegmentKeyInfo(drm.protections, drm.keys)]
    /\ UNCHANGED <<cacheVars, rep, seg, mpd, req, lateVars>>

ModeNext == InitRequest \/ SegmentRequest

ModeSpec == ModeInit /\ [][ModeNext]_vars

\* C29: both handlers take the same decision among Unprotected, Passthrough
\* and Decrypt, with the same key id, key and pssh, or both fail
C29_DrmModeAgreement ==
    drm.pc = "segment" =>
        /\ DrmMode(drm.init) = DrmMode(drm.segment)
        /\ DrmMode(drm.init) # "Failed" => drm.init = drm.segment

\* ------------------------------------------------------ segment timeline
MaxTimelineLen   == 3    \* chunks (c elements) of a stream index
MaxChunkDuration == 2    \* largest d attribute
MaxGap           == 1    \* largest gap in front of a chunk with a t attribute

\* the c elements of a stream index as written by the packager: a duration,
\* and a t attribute on any of them, with or without a gap in front
ChunkSources ==
    LET kinds == {[d |-> d, explicit |-> e, gap |-> g] :
                     d \in {1, MaxChunkDuration}, e \in BOOLEAN, g \in {0, MaxGap}}
    IN  UNION {[1..n -> {c \in kinds : c.gap > 0 => c.explicit}] :
                  n \in 0..MaxTimelineLen}

\* the start time the packager gave the k-th chunk
RECURSIVE SourceStart(_, _)
SourceStart(source, k) ==
    IF k = 1 THEN source[1].gap
    ELSE SourceStart(source, k - 1) + source[k - 1].d + source[k].gap

\* ChunkInfos as decoded from the manifest: Duration from d, StartTime from
\* t, 0 when the attribute is missing
ChunkInfos(source) ==
    [k \in 1..Len(source) |->
        [Duration |-> source[k].d,
         StartTime |-> IF source[k].explicit THEN SourceStart(source, k) ELSE 0]]

\* SmoothToDashManifest: one S per chunk, d from Duration, t from StartTime
\* on the first entry only
SegmentTimelineSs(chunkInfos) ==
    [chunk \in 1..Len(chunkInfos) |->
        [D |-> chunkInfos[chunk].Duration,
         T |-> IF chunk = 1 THEN chunkInfos[chunk].StartTime ELSE 0]]

\* a manifest with one stream index: the TimeScale of the presentation, the
\* TimeScale of the stream index (0 when it has none) and its chunks
TimelineInit ==
    /\ fn \in {[pc |-> "manifest", TimeScale |-> p, streamTimeScale |-> s,
                ChunkInfos |-> ChunkInfos(src), Timescale |-> 0, S |-> <<>>] :
                  p \in {1, MaxTimeScale}, s \in {0, 1, MaxTimeScale}, src \in ChunkSources}
    /\ CacheInit /\ EarlyIdle /\ srv = SrvIdle /\ cfg = CfgIdle

\* SmoothToDashManifest builds the SegmentTemplate of the stream index
BuildSegmentTemplate ==
    /\ fn.pc = "manifest"
    /\ fn' = [fn EXCEPT !.pc = "template",
                        !.Timescale = fn.TimeScale,
                        !.S = SegmentTimelineSs(fn.ChunkInfos)]
    /\ UNCHANGED <<cacheVars, earlyVars, srv, cfg>>

TimelineNext == BuildSegmentTemplate

TimelineSpec == TimelineInit /\ [][TimelineNext]_vars

\* the start of the k-th segment as a DASH client derives it: the first t
\* plus the d values in front of it
RECURSIVE SegmentStart(_, _)
SegmentStart(S, k) == IF k = 1 THEN S[1].T ELSE SegmentStart(S, k - 1) + S[k - 1].D

\* the start of the k-th MSS chunk: its t, else the end of the chunk before
RECURSIVE ChunkStart(_, _)
ChunkStart(chunkInfos, k) ==
    IF chunkInfos[k].StartTime # 0 THEN chunkInfos[k].StartTime
    ELSE IF k = 1 THEN 0
    ELSE ChunkStart(chunkInfos, k - 1) + chunkInfos[k - 1].Duration

\* the timescale of a stream index: its own, else the presentation's
StreamTimeScale == IF fn.streamTimeScale # 0 THEN fn.streamTimeScale ELSE fn.TimeScale

\* C30: the k-th segment start of the SegmentTimeline, in units of the
\* SegmentTemplate's timescale, is the same instant as the start of the k-th
\* chunk in the timescale of the stream index
C30_TimelineEquivalence ==
    fn.pc = "template" =>
        \A k \in 1..Len(fn.S) :
            SegmentStart(fn.S, k) * StreamTimeScale = ChunkStart(fn.ChunkInfos, k) * fn.Timescale

====
